---- MODULE Spec2Model ----
(***************************************************************************)
(* Model of the ChatService splitting scripts of KaChat                    *)
(* (scripts/split_chatservice_v2.py, scripts/smart_split.py,               *)
(* scripts/split_chatservice.py, scripts/restore_chatservice.py,           *)
(* scripts/fix_chatservice.py) and of the range lookup of                  *)
(* scripts/build_geoip_lite.py.                                            *)
(*                                                                         *)
(* A line of text is a sequence of tokens.  A token is either one          *)
(* character that some script inspects on its own ("{", "}", the quote,    *)
(* the backslash, "/", "*", "(", ")", "@", a blank) or a maximal run of    *)
(* word characters ("private", "func", "f").  The trailing newline that    *)
(* readlines() keeps is an ordinary character for every function modelled  *)
(* here and is left out.                                                   *)
(***************************************************************************)
EXTENDS Integers, Sequences, FiniteSets, TLC

VARIABLES
    text,        \* scanner harness: the lines handed to compute_brace_depths
    keys,        \* scanner harness: the number of keystrokes that built text
    scanned,     \* scanner harness: the depth trace it returned (<<>> before the call)
    \* split_chatservice_v2.py, one run of the script
    pc,            \* the step of the script that runs next, or how it ended
    lines,         \* the input file as read
    depths,        \* STEP 1
    cut_points,    \* STEP 2 (0-based line indices, as in the script)
    sections,      \* STEP 3
    fs,            \* the output directory: file number -> lines of the file, or NoFile
    written_files, \* STEP 6: the files written so far, in order
    \* smart_split.py, one run of STEP 2 to STEP 4
    spc,           \* the step that runs next
    all_body,      \* the reassembled class body
    methods,       \* STEP 2: the spans found
    categorized,   \* STEP 4: category -> the spans in it, as indices into methods
    \* visibility rewriting: one line handed to the four functions
    rw_line,       \* the line
    rw_out,        \* function name -> its result (<<>> before the calls)
    rw_again,      \* function name -> its result on its own result (<<>> before)
    \* smart_split.py, whole runs on a directory
    sin,           \* what the directory held before the first run
    sdir,          \* the directory: file name -> lines of the file, or NoFile
    sruns,         \* one record per run: spans found, lines they cover, result
    \* fix_chatservice.py, one run of STEP 1 and STEP 2
    fpc,           \* the step that runs next
    backup_lines,  \* the backup file as read
    damaged_lines, \* the damaged file as read
    fixed_lines,   \* STEP 2: the restored lines
    \* build_geoip_lite.py, one call of find_asn
    gpc,           \* where the call stands
    asn_ranges,    \* the ranges (start, end, asn), as load_asn_ranges returns them
    ip_int,        \* the address looked up
    lo,            \* the search interval
    hi,
    result,        \* what the call returned (None before it returns)
    \* compute_brace_depths, one call, iteration by iteration
    scan_pc,       \* the loop whose next iteration runs, or how the call stands
    scan_line,     \* the 1-based number of the line of the for loop
    scan_i,        \* i
    scan_depth,    \* depth
    scan_in_block_comment, \* in_block_comment
    scan_depths    \* depths

scanVars == <<text, keys, scanned>>
v2Vars == <<pc, lines, depths, cut_points, sections, fs, written_files>>
smartVars == <<spc, all_body, methods, categorized>>
rwVars == <<rw_line, rw_out, rw_again>>
dirVars == <<sin, sdir, sruns>>
fixVars == <<fpc, backup_lines, damaged_lines, fixed_lines>>
geoVars == <<gpc, asn_ranges, ip_int, lo, hi, result>>
stepVars == <<scan_pc, scan_line, scan_i, scan_depth, scan_in_block_comment, scan_depths>>
vars == <<scanVars, v2Vars, smartVars, rwVars, dirVars, fixVars, geoVars, stepVars>>

\* What a run of one script leaves alone.
notScan == <<v2Vars, smartVars, rwVars, dirVars, fixVars, geoVars, stepVars>>
notV2 == <<scanVars, smartVars, rwVars, dirVars, fixVars, geoVars, stepVars>>
notSmart == <<scanVars, v2Vars, rwVars, dirVars, fixVars, geoVars, stepVars>>
notRw == <<scanVars, v2Vars, smartVars, dirVars, fixVars, geoVars, stepVars>>
notDir == <<scanVars, v2Vars, smartVars, rwVars, fixVars, geoVars, stepVars>>
notSteps == <<scanned, v2Vars, smartVars, rwVars, dirVars, fixVars, geoVars>>
notFix == <<scanVars, v2Vars, smartVars, rwVars, dirVars, geoVars, stepVars>>
notGeo == <<scanVars, v2Vars, smartVars, rwVars, dirVars, fixVars, stepVars>>

SmartIdle == spc = "idle" /\ all_body = <<>> /\ methods = <<>> /\ categorized = <<>>
DirIdle == sin = <<>> /\ sdir = <<>> /\ sruns = <<>>
RwIdle == rw_line = <<>> /\ rw_out = <<>> /\ rw_again = <<>>
FixIdle == fpc = "idle" /\ backup_lines = <<>> /\ damaged_lines = <<>> /\ fixed_lines = <<>>
StepsIdle ==
    /\ scan_pc = "idle" /\ scan_line = 0 /\ scan_i = 0 /\ scan_depth = 0
    /\ scan_in_block_comment = FALSE /\ scan_depths = <<>>
GeoIdle == gpc = "idle" /\ asn_ranges = <<>> /\ ip_int = 0 /\ lo = 0 /\ hi = 0 /\ result = <<>>

Q  == "\""
BS == "\\"

Min(a, b) == IF a < b THEN a ELSE b
Max(a, b) == IF a > b THEN a ELSE b

\* Python's s[i:i+n], for a 1-based index i (an index past the end gives <<>>).
Sub(s, i, n) == IF i > Len(s) THEN <<>> ELSE SubSeq(s, i, Min(i + n - 1, Len(s)))

(***************************************************************************)
(* split_chatservice_v2.py, STEP 1: compute_brace_depths                   *)
(***************************************************************************)

\* lines 60-69: after the opening triple quote, scan this line for the closing one.
RECURSIVE SkipTriple(_, _)
SkipTriple(s, i) ==
    IF i > Len(s) THEN i
    ELSE IF Sub(s, i, 3) = <<Q, Q, Q>> THEN i + 3
    ELSE IF s[i] = BS THEN SkipTriple(s, i + 2)
    ELSE SkipTriple(s, i + 1)

\* SkipString without the escape rule: the first quote ends the string.
RECURSIVE SkipString_NoEscape(_, _)
SkipString_NoEscape(s, i) ==
    IF i > Len(s) THEN i
    ELSE IF s[i] = Q THEN i + 1
    ELSE SkipString_NoEscape(s, i + 1)

\* lines 71-80: after the opening quote, scan this line for the closing one.
RECURSIVE SkipString(_, _)
SkipString(s, i) ==
    IF i > Len(s) THEN i
    ELSE IF s[i] = BS THEN SkipString(s, i + 2)
    ELSE IF s[i] = Q THEN i + 1
    ELSE SkipString(s, i + 1)

\* lines 33-87: the while loop over one line, from index i, with the
\* scanner's two pieces of state; the state at the end of the line.
RECURSIVE ScanLine(_, _, _, _)
ScanLine(s, i, depth, in_block_comment) ==
    IF i > Len(s) THEN [depth |-> depth, in_block_comment |-> in_block_comment]
    ELSE IF in_block_comment THEN
        IF Sub(s, i, 2) = <<"*", "/">>
        THEN ScanLine(s, i + 2, depth, FALSE)
        ELSE ScanLine(s, i + 1, depth, TRUE)
    ELSE IF Sub(s, i, 2) = <<"/", "*">> THEN ScanLine(s, i + 2, depth, TRUE)
    ELSE IF Sub(s, i, 2) = <<"/", "/">>
        THEN [depth |-> depth, in_block_comment |-> FALSE]
    ELSE IF s[i] = Q THEN
        IF Sub(s, i, 3) = <<Q, Q, Q>>
        THEN ScanLine(s, SkipTriple(s, i + 3), depth, FALSE)
        ELSE ScanLine(s, SkipString(s, i + 1), depth, FALSE)
    ELSE IF s[i] = "{" THEN ScanLine(s, i + 1, depth + 1, FALSE)
    ELSE IF s[i] = "}" THEN ScanLine(s, i + 1, depth - 1, FALSE)
    ELSE ScanLine(s, i + 1, depth, FALSE)

\* lines 28-91: the for loop over the lines; depths so far and the state
\* carried into line k.
RECURSIVE ScanFrom(_, _, _, _, _)
ScanFrom(ls, k, ds, depth, in_block_comment) ==
    IF k > Len(ls)
    THEN [depths |-> ds, depth |-> depth, in_block_comment |-> in_block_comment]
    ELSE LET e == ScanLine(ls[k], 1, depth, in_block_comment)
         IN  ScanFrom(ls, k + 1, Append(ds, e.depth), e.depth, e.in_block_comment)

ScanState(ls) == ScanFrom(ls, 1, <<>>, 0, FALSE)

compute_brace_depths(ls) == ScanState(ls).depths

(***************************************************************************)
(* Text helpers: str.strip(), blank and comment-only lines                 *)
(***************************************************************************)
Ws == {" ", "\t"}

\* The number of whitespace tokens the line starts with (regex \s+, lstrip).
RECURSIVE LeadWs(_)
LeadWs(s) == IF s # <<>> /\ Head(s) \in Ws THEN 1 + LeadWs(Tail(s)) ELSE 0

RECURSIVE TrailWs(_)
TrailWs(s) ==
    IF s # <<>> /\ s[Len(s)] \in Ws THEN 1 + TrailWs(SubSeq(s, 1, Len(s) - 1)) ELSE 0

\* line.strip()
Strip(s) ==
    IF LeadWs(s) = Len(s) THEN <<>> ELSE SubSeq(s, LeadWs(s) + 1, Len(s) - TrailWs(s))

\* stripped.startswith(p)
StartsWith(s, p) == Len(s) >= Len(p) /\ SubSeq(s, 1, Len(p)) = p

\* The word w ends with the characters of p / starts with them.
EndsWord(w, p) == Len(w) >= Len(p) /\ SubSeq(w, Len(w) - Len(p) + 1, Len(w)) = p
StartsWord(w, p) == Len(w) >= Len(p) /\ SubSeq(w, 1, Len(p)) = p

\* The text p (of two tokens or more) stands at the start of s: its first
\* token may be the end of a longer word, its last token the beginning of one.
TextAt(s, p) ==
    /\ Len(s) >= Len(p)
    /\ EndsWord(s[1], p[1])
    /\ SubSeq(s, 2, Len(p) - 1) = SubSeq(p, 2, Len(p) - 1)
    /\ StartsWord(s[Len(p)], p[Len(p)])

\* 'needle' in line
RECURSIVE Contains(_, _)
Contains(s, p) ==
    IF Len(s) < Len(p) THEN FALSE
    ELSE TextAt(s, p) \/ Contains(Tail(s), p)

(***************************************************************************)
(* split_chatservice_v2.py, STEP 5: access control                         *)
(***************************************************************************)

\* SubPrivate with the pattern cut after "private": the word goes whatever
\* follows it.
SubPrivate_NoBlank(line, kw) ==
    LET n == LeadWs(line)
    IN  IF n >= 1 /\ Sub(line, n + 1, 1) = <<"private">>
        THEN SubSeq(line, 1, n) \o SubSeq(line, n + 2, Len(line))
        ELSE line

\* re.sub(r'^(\s+)private (kw )', r'\1\2', line): a line that starts with one
\* or more blanks, then "private", one blank, the keyword and one blank,
\* loses "private" and the blank after it.
SubPrivate(line, kw) ==
    LET n == LeadWs(line)
    IN  IF n >= 1 /\ Sub(line, n + 1, 4) = <<"private", " ", kw, " ">>
        THEN SubSeq(line, 1, n) \o SubSeq(line, n + 3, Len(line))
        ELSE line

\* The substitutions of a list of keywords, applied one after the other.
RECURSIVE SubPrivateAll(_, _)
SubPrivateAll(line, kws) ==
    IF kws = <<>> THEN line
    ELSE SubPrivateAll(SubPrivate(line, Head(kws)), Tail(kws))

\* strip_private_from_declarations with one pattern for any word after
\* "private": r'^(\s+)private (\w+ )'.
strip_private_AnyWord(line) ==
    LET n == LeadWs(line)
    IN  IF /\ n >= 1 /\ Len(line) >= n + 4 /\ line[n + 1] = "private"
           /\ line[n + 2] = " " /\ line[n + 4] = " "
        THEN SubSeq(line, 1, n) \o SubSeq(line, n + 3, Len(line))
        ELSE line

strip_private_from_declarations(line) ==
    SubPrivateAll(line, <<"func", "var", "let", "enum", "struct", "nonisolated">>)

strip_private_properties(line) ==
    IF Contains(line, <<"private", "(", "set", ")">>) THEN line
    ELSE SubPrivateAll(line, <<"var", "let", "enum", "struct">>)

(***************************************************************************)
(* split_chatservice.py: access modifier changes.  Both functions take the *)
(* content of a file; with re.MULTILINE every pattern applies line by line.*)
(***************************************************************************)

\* re.sub(r'^(    )private kw ', r'\1kw ', content, flags=re.MULTILINE), on
\* one line: exactly four blanks, then "private", a blank, the keyword, a blank.
SubPrivate4(line, kw) ==
    IF Sub(line, 1, 8) = <<" ", " ", " ", " ", "private", " ", kw, " ">>
    THEN SubSeq(line, 1, 4) \o SubSeq(line, 7, Len(line))
    ELSE line

RECURSIVE SubPrivate4All(_, _)
SubPrivate4All(line, kws) ==
    IF kws = <<>> THEN line
    ELSE SubPrivate4All(SubPrivate4(line, Head(kws)), Tail(kws))

fix_private_access(content) ==
    [k \in 1..Len(content) |->
        SubPrivate4All(content[k], <<"func", "var", "let", "enum", "struct">>)]

\* fix_chatservice.py, lines 27-31: normalize(line), the same pattern on one line.
normalize(line) == SubPrivate4All(line, <<"func", "var", "let", "enum", "struct">>)

\* re.sub(r'^private kw ', r'kw ', content, flags=re.MULTILINE), on one line.
SubPrivate0(line, kw) ==
    IF Sub(line, 1, 4) = <<"private", " ", kw, " ">>
    THEN SubSeq(line, 3, Len(line))
    ELSE line

RECURSIVE SubPrivate0All(_, _)
SubPrivate0All(line, kws) ==
    IF kws = <<>> THEN line
    ELSE SubPrivate0All(SubPrivate0(line, Head(kws)), Tail(kws))

fix_private_for_file_scope_types(content) ==
    [k \in 1..Len(content) |-> SubPrivate0All(content[k], <<"struct", "actor", "enum">>)]

\* line.count(c)
Count(s, c) == Cardinality({i \in 1..Len(s) : s[i] = c})

(***************************************************************************)
(* split_chatservice_v2.py, STEP 2: cut points.  The script's six targets  *)
(* (562 ... 9362, at least 1256 lines apart) and its window of 30 lines    *)
(* are scaled down: NumTargets targets, 2 * SearchWindow lines apart, so   *)
(* that the windows of two targets never overlap, as in the script.        *)
(***************************************************************************)
SearchWindow == 1
NumTargets == 2

target_cuts == [k \in 1..NumTargets |-> (2 * k - 1) * SearchWindow]

\* Python's s[a:b] for 0-based a, b >= 0.
PySlice(s, a, b) == IF Min(b, Len(s)) <= a THEN <<>> ELSE SubSeq(s, a + 1, Min(b, Len(s)))

\* line 120-121: stripped == '' or stripped.startswith('//')
is_clean(line) == Strip(line) = <<>> \/ StartsWith(Strip(line), <<"/", "/">>)

Abs(n) == IF n < 0 THEN -n ELSE n

\* line 122-124, doubled to stay in the integers: abs(i - target), less 0.5
\* for a clean line.
Dist2(i, target, ls) ==
    2 * Abs(i - target) - (IF is_clean(ls[i + 1]) THEN 1 ELSE 0)

\* The loop without the depth test of line 118.
RECURSIVE CutLoop_AnyDepth(_, _, _, _, _, _, _)
CutLoop_AnyDepth(i, stop, target, ds, ls, best, best_dist) ==
    IF i >= stop THEN best
    ELSE IF Dist2(i, target, ls) < best_dist
         THEN CutLoop_AnyDepth(i + 1, stop, target, ds, ls, i, Dist2(i, target, ls))
         ELSE CutLoop_AnyDepth(i + 1, stop, target, ds, ls, best, best_dist)

\* lines 117-127: the loop from 0-based index i up to stop - 1, with the best
\* index so far (-1 for None) and its doubled distance.
RECURSIVE CutLoop(_, _, _, _, _, _, _)
CutLoop(i, stop, target, ds, ls, best, best_dist) ==
    IF i >= stop THEN best
    ELSE IF ds[i + 1] = 1 /\ Dist2(i, target, ls) < best_dist
         THEN CutLoop(i + 1, stop, target, ds, ls, i, Dist2(i, target, ls))
         ELSE CutLoop(i + 1, stop, target, ds, ls, best, best_dist)

None == -1

\* The search with a window one line wider on both sides.
find_nearest_cut_Wide(target, ds, ls) ==
    CutLoop(Max(0, target - SearchWindow - 1), Min(Len(ls), target + SearchWindow + 1),
            target, ds, ls, None, 2 * 999999)

\* lines 112-128; best_dist starts at 999999, doubled here.
find_nearest_cut(target, ds, ls) ==
    CutLoop(Max(0, target - SearchWindow), Min(Len(ls), target + SearchWindow),
            target, ds, ls, None, 2 * 999999)

\* lines 130-137: the cuts that were found, in target order.
RECURSIVE CutPointsFrom(_, _, _)
CutPointsFrom(k, ds, ls) ==
    IF k > NumTargets THEN <<>>
    ELSE LET cut == find_nearest_cut(target_cuts[k], ds, ls)
         IN  (IF cut # None THEN <<cut>> ELSE <<>>) \o CutPointsFrom(k + 1, ds, ls)

\* lines 143-148
RECURSIVE SectionsFrom(_, _, _)
SectionsFrom(ls, cuts, prev) ==
    IF cuts = <<>> THEN <<PySlice(ls, prev, Len(ls))>>
    ELSE <<PySlice(ls, prev, Head(cuts) + 1)>> \o SectionsFrom(ls, Tail(cuts), Head(cuts) + 1)

(***************************************************************************)
(* split_chatservice_v2.py, STEP 6: the lines of each output file          *)
(***************************************************************************)
NoFile == <<"no file">>

\* file_configs, one per possible section; file 1 is ChatService.swift, the
\* file the input was read from.
NumFiles == NumTargets + 1

\* IMPORTS + '\n' (lines 205-210, 271), as the lines it is written as.
IMPORTS == << <<"import", " ", "Foundation">>, <<"import", " ", "Combine">>,
              <<"import", " ", "UIKit">>, <<"import", " ", "UserNotifications">>,
              <<"import", " ", "CryptoKit">>, <<>> >>

\* lines 271-274
ExtensionHead ==
    IMPORTS \o << <<"/", "/", " ", "MARK", ":", " ", "-", " ", "desc">>, <<>>,
                  <<"extension", " ", "ChatService", " ", "{">> >>

\* lines 289-290: while out_lines and out_lines[-1].strip() == '': pop()
RECURSIVE PopBlank(_)
PopBlank(out) ==
    IF out # <<>> /\ Strip(out[Len(out)]) = <<>>
    THEN PopBlank(SubSeq(out, 1, Len(out) - 1))
    ELSE out

\* lines 252-262
MainLines(section) ==
    Append([k \in 1..Len(section) |-> strip_private_properties(section[k])], <<"}">>)

\* lines 270-296
ExtensionLines(section, is_last) ==
    LET out == ExtensionHead \o
                 [k \in 1..Len(section) |-> strip_private_from_declarations(section[k])]
    IN  IF is_last
        THEN LET popped == PopBlank(out)
             IN  Append(IF Strip(popped[Len(popped)]) = <<"}">>
                        THEN SubSeq(popped, 1, Len(popped) - 1)
                        ELSE popped,
                        <<"}">>)
        ELSE Append(out, <<"}">>)

\* lines 248-300: the lines written for section idx (1-based here).
OutLines(secs, idx) ==
    IF idx = 1 THEN MainLines(secs[idx])
    ELSE ExtensionLines(secs[idx], idx = Len(secs))

\* lines 317-321: the depth at the end of a file as STEP 7 reads it back;
\* content.split('\n') yields the lines and one empty string after the last.
FinalDepth(content) ==
    LET file_depths == compute_brace_depths(Append(content, <<>>))
    IN  file_depths[Len(file_depths)]

(***************************************************************************)
(* split_chatservice_v2.py: one run of the script, step by step            *)
(***************************************************************************)
MaxLines == 5

LClass     == <<"class", " ", "T", " ", "{">>
LBlank     == <<>>
LFunc      == <<" ", " ", " ", " ", "private", " ", "func", " ", "f", "(", ")", " ", "{">>
LCloseIn   == <<" ", " ", " ", " ", "}">>
LVar       == <<" ", " ", " ", " ", "private", " ", "var", " ", "a">>
LClose     == <<"}">>
LBlockOpen == <<"/", "*">>
LStatic    == <<" ", " ", " ", " ", "private", " ", "static", " ", "let", " ", "s">>

\* The lines an input file is made of.
V2Catalog == {LClass, LBlank, LFunc, LCloseIn, LVar, LClose, LBlockOpen, LStatic}

\* The output directory before the run: ChatService.swift holds the input.
InitialFs(ls) == [f \in 1..NumFiles |-> IF f = 1 THEN ls ELSE NoFile]

V2Idle ==
    /\ pc = "idle" /\ lines = <<>> /\ depths = <<>> /\ cut_points = <<>>
    /\ sections = <<>> /\ fs = <<>> /\ written_files = <<>>

ScanIdle == text = <<>> /\ keys = 0 /\ scanned = <<>>

V2Init ==
    /\ pc = "input" /\ lines = <<>> /\ depths = <<>> /\ cut_points = <<>>
    /\ sections = <<>> /\ fs = InitialFs(<<>>) /\ written_files = <<>>
    /\ ScanIdle /\ SmartIdle /\ RwIdle /\ DirIdle /\ FixIdle /\ GeoIdle /\ StepsIdle

\* The file on disk before the run, one more line of it.
V2AddLine ==
    /\ pc = "input"
    /\ Len(lines) < MaxLines
    /\ \E l \in V2Catalog : lines' = Append(lines, l)
    /\ fs' = InitialFs(lines')
    /\ UNCHANGED <<pc, depths, cut_points, sections, written_files>>
    /\ UNCHANGED notV2

\* lines 17-20: the script starts and reads the file.
V2Read ==
    /\ pc = "input"
    /\ pc' = "step1"
    /\ UNCHANGED <<lines, depths, cut_points, sections, fs, written_files>>
    /\ UNCHANGED notV2

\* lines 93-94; depths[-1] of an empty file raises IndexError.
V2Step1 ==
    /\ pc = "step1"
    /\ depths' = compute_brace_depths(lines)
    /\ pc' = IF lines = <<>> THEN "crash" ELSE "step2"
    /\ UNCHANGED <<lines, cut_points, sections, fs, written_files>>
    /\ UNCHANGED notV2

\* lines 130-137
V2Step2 ==
    /\ pc = "step2"
    /\ cut_points' = CutPointsFrom(1, depths, lines)
    /\ pc' = "step3"
    /\ UNCHANGED <<lines, depths, sections, fs, written_files>>
    /\ UNCHANGED notV2

\* lines 143-152
V2Step3 ==
    /\ pc = "step3"
    /\ sections' = SectionsFrom(lines, cut_points, 0)
    /\ pc' = "step4"
    /\ UNCHANGED <<lines, depths, cut_points, fs, written_files>>
    /\ UNCHANGED notV2

\* lines 158-164
V2Step4 ==
    /\ pc = "step4"
    /\ pc' = IF \A k \in 1..Len(cut_points) : depths[cut_points[k] + 1] = 1
             THEN "step6" ELSE "exit1"
    /\ UNCHANGED <<lines, depths, cut_points, sections, fs, written_files>>
    /\ UNCHANGED notV2

\* lines 248-300: one iteration of the loop over zip(sections, file_configs);
\* open(filepath, 'w') and writelines replace the file.
V2WriteFile ==
    /\ pc = "step6"
    /\ LET idx == Len(written_files) + 1
       IN  /\ idx <= Min(Len(sections), NumFiles)
           /\ fs' = [fs EXCEPT ![idx] = OutLines(sections, idx)]
           /\ written_files' = Append(written_files, idx)
    /\ UNCHANGED <<pc, lines, depths, cut_points, sections>>
    /\ UNCHANGED notV2

\* lines 264-265, 298-299: open(filepath, 'w') or writelines raises OSError
\* and the script ends with a traceback; the file is as it was when open
\* failed, and empty when the write failed after open truncated it.
V2WriteFails ==
    /\ pc = "step6"
    /\ LET idx == Len(written_files) + 1
       IN  /\ idx <= Min(Len(sections), NumFiles)
           /\ \E left \in {fs[idx], <<>>} : fs' = [fs EXCEPT ![idx] = left]
    /\ pc' = "ioerror"
    /\ UNCHANGED <<lines, depths, cut_points, sections, written_files>>
    /\ UNCHANGED notV2

\* lines 302-308: the loop is over.
V2Written ==
    /\ pc = "step6"
    /\ Len(written_files) = Min(Len(sections), NumFiles)
    /\ pc' = "step7"
    /\ UNCHANGED <<lines, depths, cut_points, sections, fs, written_files>>
    /\ UNCHANGED notV2

\* lines 314-332
V2Step7 ==
    /\ pc = "step7"
    /\ LET all_good == \A k \in 1..Len(written_files) : FinalDepth(fs[written_files[k]]) = 0
       IN  pc' = IF all_good THEN "exit0" ELSE "exit1"
    /\ UNCHANGED <<lines, depths, cut_points, sections, fs, written_files>>
    /\ UNCHANGED notV2

V2Next ==
    \/ V2AddLine \/ V2Read \/ V2Step1 \/ V2Step2 \/ V2Step3 \/ V2Step4
    \/ V2WriteFile \/ V2WriteFails \/ V2Written \/ V2Step7

(***************************************************************************)
(* smart_split.py, STEP 2: method boundaries in all_body                   *)
(***************************************************************************)
NameLimit == 40

\* s[:n] of a line of tokens: the first n characters.
RECURSIVE TakeChars(_, _)
TakeChars(s, n) ==
    IF s = <<>> \/ n <= 0 THEN <<>>
    ELSE IF Len(Head(s)) <= n
         THEN <<Head(s)>> \o TakeChars(Tail(s), n - Len(Head(s)))
         ELSE <<SubSeq(Head(s), 1, n)>>

\* A word token (\w+): not one of the single characters a line is cut into.
IsWord(t) ==
    t \notin {" ", "\t", "{", "}", "(", ")", "[", "]", "<", ">", "@", "/", "*", ":",
             "=", "-", "+", ".", ",", ";", "?", "!", "&", "|", "#", "'", Q, BS}

\* re.match(r'kw\s+(\w+)', s) from token i on: the name, or <<>> for no match.
KeywordName(s, i, kws) ==
    LET j == i + 1 + LeadWs(SubSeq(s, i + 1, Len(s)))
    IN  IF /\ i <= Len(s) /\ s[i] \in kws
           /\ j > i + 1 /\ j <= Len(s) /\ IsWord(s[j])
        THEN <<s[j]>> ELSE <<>>

\* The index after an optional prefix: (?:nonisolated\s+)? for "func",
\* (?:@\w+\s+)? for "var" and "let".
AfterNonisolated(s) ==
    IF s # <<>> /\ s[1] = "nonisolated" /\ LeadWs(Tail(s)) >= 1
    THEN 2 + LeadWs(Tail(s)) ELSE 1

AfterAttribute(s) ==
    IF Len(s) >= 3 /\ s[1] = "@" /\ IsWord(s[2]) /\ LeadWs(SubSeq(s, 3, Len(s))) >= 1
    THEN 3 + LeadWs(SubSeq(s, 3, Len(s))) ELSE 1

\* One pattern of _extract_name; the optional prefix is tried first and, as
\* the regex engine backtracks, the pattern without it second.
NameWith(s, after, kws) ==
    IF KeywordName(s, after, kws) # <<>> THEN KeywordName(s, after, kws)
    ELSE KeywordName(s, 1, kws)

\* lines 132-143: MethodSpan._extract_name, the name as a line of tokens (one
\* word when a pattern matched, otherwise the first 40 characters).
extract_name(line) ==
    LET s == Strip(line)
    IN  IF NameWith(s, AfterNonisolated(s), {"func"}) # <<>>
        THEN NameWith(s, AfterNonisolated(s), {"func"})
        ELSE IF NameWith(s, AfterAttribute(s), {"var"}) # <<>>
        THEN NameWith(s, AfterAttribute(s), {"var"})
        ELSE IF NameWith(s, AfterAttribute(s), {"let"}) # <<>>
        THEN NameWith(s, AfterAttribute(s), {"let"})
        ELSE IF KeywordName(s, 1, {"enum", "struct", "class"}) # <<>>
        THEN KeywordName(s, 1, {"enum", "struct", "class"})
        ELSE TakeChars(s, NameLimit)

\* lines 126-130: MethodSpan(start_idx, first_line); start is 0-based.
MethodSpan(start_idx, first_line) ==
    [start |-> start_idx, end |-> None,
     first_line |-> Strip(first_line), name |-> extract_name(first_line)]

\* lines 158-162: the declaration pattern, matched at the start of stripped.
DeclPrefixes ==
    { <<"func", " ">>, <<"var", " ">>, <<"let", " ">>, <<"enum", " ">>,
      <<"struct", " ">>, <<"class", " ">>, <<"@", "Published">>,
      <<"@", "discardableResult">>, <<"nonisolated", " ">>, <<"init", "(">>,
      <<"static", " ">>, <<"/", "/", "/", " ">>, <<"/", "/", " ", "MARK">> }

\* re.match(p, s) for a literal pattern p: s starts with the characters of p,
\* so the last token of p may be the beginning of a longer word of s.
MatchesPrefix(s, p) ==
    /\ Len(s) >= Len(p)
    /\ SubSeq(s, 1, Len(p) - 1) = SubSeq(p, 1, Len(p) - 1)
    /\ Len(s[Len(p)]) >= Len(p[Len(p)])
    /\ SubSeq(s[Len(p)], 1, Len(p[Len(p)])) = p[Len(p)]

is_decl(stripped) == \E p \in DeclPrefixes : MatchesPrefix(stripped, p)

\* line 177: line.count('{') - line.count('}')
BraceDelta(line) == Count(line, "{") - Count(line, "}")

\* lines 152-177: the loop from 0-based line i, with the running depth, the
\* open span (NoSpan for None) and the closed spans; both branches of lines
\* 164-174 close the open span at i and open a new one.
NoSpan == [start |-> None]

\* The loop without the depth test of line 156.
RECURSIVE BoundaryLoop_AnyDepth(_, _, _, _, _)
BoundaryLoop_AnyDepth(body, i, depth, current_method, ms) ==
    IF i >= Len(body)
    THEN IF current_method # NoSpan
         THEN Append(ms, [current_method EXCEPT !.end = Len(body)])
         ELSE ms
    ELSE LET line == body[i + 1]
             opens == is_decl(Strip(line))
             closed == IF opens /\ current_method # NoSpan
                       THEN Append(ms, [current_method EXCEPT !.end = i])
                       ELSE ms
             cur == IF opens THEN MethodSpan(i, line) ELSE current_method
         IN  BoundaryLoop_AnyDepth(body, i + 1, depth + BraceDelta(line), cur, closed)

RECURSIVE BoundaryLoop(_, _, _, _, _)
BoundaryLoop(body, i, depth, current_method, ms) ==
    IF i >= Len(body)
    THEN \* lines 180-182
         IF current_method # NoSpan
         THEN Append(ms, [current_method EXCEPT !.end = Len(body)])
         ELSE ms
    ELSE LET line == body[i + 1]
             opens == depth = 0 /\ is_decl(Strip(line))
             closed == IF opens /\ current_method # NoSpan
                       THEN Append(ms, [current_method EXCEPT !.end = i])
                       ELSE ms
             cur == IF opens THEN MethodSpan(i, line) ELSE current_method
         IN  BoundaryLoop(body, i + 1, depth + BraceDelta(line), cur, closed)

\* lines 145-182
find_methods(body) == BoundaryLoop(body, 0, 0, NoSpan, <<>>)

(***************************************************************************)
(* smart_split.py, STEP 3 and 4: categories.  The name sets are cut down   *)
(* to a few of their members; like the script's, they are disjoint.        *)
(***************************************************************************)
SYNC_METHODS       == {"startPolling"}
UTXO_METHODS       == {"stopPolling"}
SENDING_METHODS    == {"sendMessage"}
PROCESSING_METHODS == {"processPayments"}
CORE_KEEP          == {"isLoading", "init", "clearAllData"}

\* name in SET, for a name held as a line of tokens.
NameIn(name, S) == Len(name) = 1 /\ name[1] \in S

\* categorize without the default of line 308: an unmatched name goes to sync.
categorize_NoDefault(method) ==
    IF NameIn(method.name, UTXO_METHODS) THEN "utxo"
    ELSE IF NameIn(method.name, SENDING_METHODS) THEN "sending"
    ELSE IF NameIn(method.name, PROCESSING_METHODS) THEN "processing"
    ELSE "sync"

\* lines 298-308
categorize(method) ==
    IF NameIn(method.name, SYNC_METHODS) THEN "sync"
    ELSE IF NameIn(method.name, UTXO_METHODS) THEN "utxo"
    ELSE IF NameIn(method.name, SENDING_METHODS) THEN "sending"
    ELSE IF NameIn(method.name, PROCESSING_METHODS) THEN "processing"
    ELSE "persistence"

Categories == {"core", "sync", "utxo", "sending", "processing", "persistence"}

\* line 342
EmptyCategorized == [cat \in Categories |-> <<>>]

\* The first pass without the test of line 346: the name rules alone decide.
RECURSIVE NamePass_RulesOnly(_, _, _)
NamePass_RulesOnly(ms, k, cz) ==
    IF k > Len(ms) THEN cz
    ELSE NamePass_RulesOnly(ms, k + 1, [cz EXCEPT ![categorize(ms[k])] = Append(@, k)])

\* lines 344-350: the first pass; a method is held by its index in methods.
RECURSIVE NamePass(_, _, _)
NamePass(ms, k, cz) ==
    IF k > Len(ms) THEN cz
    ELSE LET cat == IF NameIn(ms[k].name, CORE_KEEP) THEN "core" ELSE categorize(ms[k])
         IN  NamePass(ms, k + 1, [cz EXCEPT ![cat] = Append(@, k)])

InSeq(x, s) == \E i \in 1..Len(s) : s[i] = x

\* list.remove(m): the list without the first occurrence of m.
RECURSIVE Remove(_, _)
Remove(s, m) ==
    IF s = <<>> THEN <<>>
    ELSE IF Head(s) = m THEN Tail(s)
    ELSE <<Head(s)>> \o Remove(Tail(s), m)

\* line 360: the pattern of a declaration that is not a property.
NotPropertyPrefixes ==
    { <<"func", " ">>, <<"enum", " ">>, <<"struct", " ">>, <<"class", " ">>,
      <<"init", "(">>, <<"nonisolated", " ", "func">>, <<"static", " ", "func">> }

is_property(fl) == ~(\E p \in NotPropertyPrefixes : MatchesPrefix(fl, p))

\* The second pass without lines 365-367: m stays where the first pass put it.
RemoveFromOthers_Keep(cz, m) == cz

\* lines 365-367: m leaves every category but core.
RemoveFromOthers(cz, m) ==
    [cat \in Categories |-> IF cat # "core" /\ InSeq(m, cz[cat]) THEN Remove(cz[cat], m)
                                                           ELSE cz[cat]]

\* lines 355-367: the second pass, which moves the properties into core.
RECURSIVE PropertyPass(_, _, _)
PropertyPass(ms, k, cz) ==
    IF k > Len(ms) THEN cz
    ELSE IF NameIn(ms[k].name, CORE_KEEP) THEN PropertyPass(ms, k + 1, cz)
    ELSE IF is_property(ms[k].first_line) /\ ~InSeq(k, cz["core"])
         THEN PropertyPass(ms, k + 1,
                           RemoveFromOthers([cz EXCEPT !["core"] = Append(@, k)], k))
         ELSE PropertyPass(ms, k + 1, cz)

\* list.sort(key=lambda m: m.start): insertion of x into a list sorted by start.
RECURSIVE InsertByStart(_, _, _)
InsertByStart(ms, s, x) ==
    IF s = <<>> THEN <<x>>
    ELSE IF ms[x].start < ms[Head(s)].start THEN <<x>> \o s
    ELSE <<Head(s)>> \o InsertByStart(ms, Tail(s), x)

\* The list left in the order of insertion.
SortByStart_Unsorted(ms, s) == s

RECURSIVE SortByStart(_, _)
SortByStart(ms, s) ==
    IF s = <<>> THEN <<>>
    ELSE InsertByStart(ms, SortByStart(ms, SubSeq(s, 1, Len(s) - 1)), s[Len(s)])

\* lines 342-367: both passes over methods.
assign_categories(ms) == PropertyPass(ms, 1, NamePass(ms, 1, EmptyCategorized))

\* lines 369-371
sort_categories(ms, cz) == [cat \in Categories |-> SortByStart(ms, cz[cat])]

(***************************************************************************)
(* smart_split.py: STEP 2 to STEP 4 on a reassembled class body, step by   *)
(* step                                                                    *)
(***************************************************************************)
MaxBody == 4

Indent4 == <<" ", " ", " ", " ">>

OneLineFunc(name) == Indent4 \o <<"func", " ", name, "(", ")", " ", "{", " ", "}">>

SBlank    == <<>>
SDoc      == Indent4 \o <<"/", "/", "/", " ", "doc">>
SSync     == OneLineFunc("startPolling")
SUtxo     == OneLineFunc("stopPolling")
SSending  == OneLineFunc("sendMessage")
SProcess  == OneLineFunc("processPayments")
SClear    == OneLineFunc("clearAllData")
SSaveOpen == Indent4 \o <<"func", " ", "save", "(", ")", " ", "{">>
SCloseIn  == Indent4 \o <<"}">>
SVar      == Indent4 \o <<"var", " ", "sendMessage", " ", "=", " ", "1">>
SInit     == Indent4 \o <<"init", "(", ")", " ", "{", " ", "}">>
SNote     == Indent4 \o Indent4 \o <<"/", "/", " ", "}">>

\* The lines a class body is made of.
SmartCatalog ==
    {SBlank, SDoc, SSync, SUtxo, SSending, SProcess, SClear, SSaveOpen, SCloseIn,
     SVar, SInit, SNote}

SmartInit ==
    /\ spc = "input" /\ all_body = <<>> /\ methods = <<>>
    /\ categorized = EmptyCategorized
    /\ V2Idle /\ ScanIdle /\ RwIdle /\ DirIdle /\ FixIdle /\ GeoIdle /\ StepsIdle

\* lines 78-101: the reassembled body, one more line of it.
SmartAddLine ==
    /\ spc = "input"
    /\ Len(all_body) < MaxBody
    /\ \E l \in SmartCatalog : all_body' = Append(all_body, l)
    /\ UNCHANGED <<spc, methods, categorized>>
    /\ UNCHANGED notSmart

\* lines 145-182: STEP 2
SmartFindMethods ==
    /\ spc = "input"
    /\ methods' = find_methods(all_body)
    /\ spc' = "pass1"
    /\ UNCHANGED <<all_body, categorized>>
    /\ UNCHANGED notSmart

\* lines 342-350: the first pass of STEP 4
SmartNamePass ==
    /\ spc = "pass1"
    /\ categorized' = NamePass(methods, 1, EmptyCategorized)
    /\ spc' = "pass2"
    /\ UNCHANGED <<all_body, methods>>
    /\ UNCHANGED notSmart

\* lines 352-367: the second pass
SmartPropertyPass ==
    /\ spc = "pass2"
    /\ categorized' = PropertyPass(methods, 1, categorized)
    /\ spc' = "sort"
    /\ UNCHANGED <<all_body, methods>>
    /\ UNCHANGED notSmart

\* lines 369-371
SmartSort ==
    /\ spc = "sort"
    /\ categorized' = sort_categories(methods, categorized)
    /\ spc' = "done"
    /\ UNCHANGED <<all_body, methods>>
    /\ UNCHANGED notSmart

SmartNext ==
    SmartAddLine \/ SmartFindMethods \/ SmartNamePass \/ SmartPropertyPass \/ SmartSort

SpecSmart == SmartInit /\ [][SmartNext]_vars

(***************************************************************************)
(* Visibility rewriting: every declaration line made of an indentation, an *)
(* attribute, a qualifier, a keyword and a name is handed to the rewriting *)
(* functions of split_chatservice_v2.py, split_chatservice.py and          *)
(* fix_chatservice.py.                                                     *)
(***************************************************************************)
RwIndents == {<<>>, <<" ">>, Indent4, Indent4 \o Indent4, <<"\t">>}

RwAttributes == {<<>>, <<"@", "Published", " ">>, <<"@", "MainActor", " ">>}

RwQualifiers ==
    {<<>>, <<"private", " ">>, <<"private", "(", "set", ")", " ">>,
     <<"fileprivate", " ">>, <<"private", " ", " ">>,
     <<"public", " ", "private", "(", "set", ")", " ">>,
     <<"private", " ", "private", " ">>}

RwKeywords == {"func", "var", "let", "enum", "struct", "nonisolated", "actor", "class"}

RwTails ==
    {<<"a">>, <<"a", " ", "/", "/", " ", "private", " ", "var", " ", "b">>,
     <<"func", " ", "f">>}

RewriteFunctions ==
    {"strip_private_from_declarations", "strip_private_properties",
     "fix_private_access", "fix_private_for_file_scope_types", "normalize"}

RwInit ==
    /\ rw_line = <<>> /\ rw_out = <<>> /\ rw_again = <<>>
    /\ V2Idle /\ ScanIdle /\ SmartIdle /\ DirIdle /\ FixIdle /\ GeoIdle /\ StepsIdle

\* The declaration line.
RwChoose ==
    /\ rw_line = <<>>
    /\ \E ind \in RwIndents, attr \in RwAttributes, qual \in RwQualifiers,
          kw \in RwKeywords, tl \in RwTails :
          rw_line' = ind \o attr \o qual \o <<kw, " ">> \o tl
    /\ UNCHANGED <<rw_out, rw_again>>
    /\ UNCHANGED notRw

\* The function named f on a line; the two of split_chatservice.py take the
\* content of a file, here the one line.
Rewrite(f, line) ==
    CASE f = "strip_private_from_declarations" -> strip_private_from_declarations(line)
      [] f = "strip_private_properties" -> strip_private_properties(line)
      [] f = "fix_private_access" -> fix_private_access(<<line>>)[1]
      [] f = "fix_private_for_file_scope_types" ->
             fix_private_for_file_scope_types(<<line>>)[1]
      [] f = "normalize" -> normalize(line)

\* The five functions on the line.
RwApply ==
    /\ rw_line # <<>>
    /\ rw_out = <<>>
    /\ rw_out' = [f \in RewriteFunctions |-> Rewrite(f, rw_line)]
    /\ UNCHANGED <<rw_line, rw_again>>
    /\ UNCHANGED notRw

\* Each function on what it returned.
RwApplyAgain ==
    /\ rw_out # <<>>
    /\ rw_again = <<>>
    /\ rw_again' = [f \in RewriteFunctions |-> Rewrite(f, rw_out[f])]
    /\ UNCHANGED <<rw_line, rw_out>>
    /\ UNCHANGED notRw

RwNext == RwChoose \/ RwApply \/ RwApplyAgain

SpecRewrite == RwInit /\ [][RwNext]_vars

(***************************************************************************)
(* smart_split.py, STEP 1: the class body from the split files             *)
(***************************************************************************)
ExtensionLine == <<"extension", " ", "ChatService", " ", "{">>

ClassLine ==
    <<"final", " ", "class", " ", "ChatService", ":", " ", "ObservableObject", " ", "{">>

TypesMark == <<"/", "/", " ", "MARK", ":", " ", "-", " ", "Supporting", " ", "Types">>

\* lines 18-22: the 0-based index of the first line from i on whose strip()
\* is 'extension ChatService {', or None.
RECURSIVE FirstExtensionLine(_, _)
FirstExtensionLine(ls, i) ==
    IF i >= Len(ls) THEN None
    ELSE IF Strip(ls[i + 1]) = ExtensionLine THEN i
    ELSE FirstExtensionLine(ls, i + 1)

\* lines 26-29: while end > start and lines[end].strip() != '}': end -= 1
RECURSIVE LastBrace(_, _, _)
LastBrace(ls, start, end) ==
    IF end > start /\ Strip(ls[end + 1]) # <<"}">> THEN LastBrace(ls, start, end - 1) ELSE end

\* lines 16-30
extract_extension_lines(ls) ==
    LET at == FirstExtensionLine(ls, 0)
    IN  IF at = None THEN <<>>
        ELSE PySlice(ls, at + 1, LastBrace(ls, at + 1, Len(ls) - 1))

\* restore_chatservice.py, lines 12-28: the same search, with an empty result
\* when no closing line is found after the opening one.
extract_extension_body(ls) ==
    LET at == FirstExtensionLine(ls, 0)
        end == LastBrace(ls, at + 1, Len(ls) - 1)
    IN  IF at = None THEN <<>>
        ELSE IF end <= at + 1 THEN <<>>
        ELSE PySlice(ls, at + 1, end)

\* lines 35-41: the loop from line i, with class_start so far; it stops at
\* the first line that holds the marker.
RECURSIVE FindClass(_, _, _)
FindClass(ls, i, class_start) ==
    IF i >= Len(ls) THEN [class_start |-> class_start, types_start |-> None]
    ELSE LET cs == IF Contains(ls[i + 1], ClassLine) THEN i + 1 ELSE class_start
         IN  IF Contains(ls[i + 1], TypesMark)
             THEN [class_start |-> cs, types_start |-> i]
             ELSE FindClass(ls, i + 1, cs)

\* lines 50-51: while end > class_start and lines[end].strip() == '': end -= 1
RECURSIVE SkipBlankBack(_, _, _)
SkipBlankBack(ls, class_start, end) ==
    IF end > class_start /\ Strip(ls[end + 1]) = <<>>
    THEN SkipBlankBack(ls, class_start, end - 1)
    ELSE end

\* lines 32-64; found is FALSE where the function raises.  "if types_start"
\* is false for None and for 0.
extract_core_class_body(ls) ==
    LET at == FindClass(ls, 0, None)
        has_types == at.types_start # None /\ at.types_start # 0
    IN  IF at.class_start = None
        THEN [found |-> FALSE, header |-> <<>>, class_body |-> <<>>, types |-> <<>>]
        ELSE [found |-> TRUE,
              header |-> PySlice(ls, 0, at.class_start - 1),
              class_body |->
                  IF has_types
                  THEN PySlice(ls, at.class_start,
                               SkipBlankBack(ls, at.class_start, at.types_start - 1))
                  ELSE PySlice(ls, at.class_start, Len(ls)),
              types |-> IF has_types THEN PySlice(ls, at.types_start, Len(ls)) ELSE <<>>]

(***************************************************************************)
(* smart_split.py, STEP 4: the files                                       *)
(***************************************************************************)
CoreFile == "ChatService.swift"

\* lines 399-406: the file of each category, and its header_comment.
FileOf ==
    [core |-> CoreFile,
     sync |-> "ChatService+PushAndSync.swift",
     utxo |-> "ChatService+UtxoProcessing.swift",
     sending |-> "ChatService+Sending.swift",
     processing |-> "ChatService+Processing.swift",
     persistence |-> "ChatService+Persistence.swift"]

HeaderComment ==
    [core |-> "Core", sync |-> "PushAndSync", utxo |-> "UtxoProcessing",
     sending |-> "Sending", processing |-> "Processing", persistence |-> "Persistence"]

\* lines 432-437: the files the script removes at its end.
TempFiles == {"ChatService_original.swift", "ChatService_reassembled.swift"}

\* lines 80-85 and 95: the order in which the bodies are joined.
ReadOrder == <<"sync", "utxo", "sending", "processing", "persistence">>

\* ''.join(all_body[m.start:m.end]) for the methods of one category.
RECURSIVE SpanLines(_, _, _)
SpanLines(body, ms, s) ==
    IF s = <<>> THEN <<>>
    ELSE PySlice(body, ms[Head(s)].start, ms[Head(s)].end) \o SpanLines(body, ms, Tail(s))

\* lines 388-394: the head of an extension file.
SmartExtensionHead(header_comment) ==
    << <<"/", "/", " ", "ChatService", "+", header_comment, ".", "swift">>,
       <<"/", "/", " ", "Split", " ", "from", " ", "ChatService", ".", "swift", " ",
         "for", " ", "faster", " ", "incremental", " ", "builds">>,
       <<>> >> \o IMPORTS \o <<ExtensionLine>>

\* The 0-based indices of the body lines of the spans s, in their order.
RECURSIVE SpanIndices(_, _)
SpanIndices(ms, s) ==
    IF s = <<>> THEN <<>>
    ELSE [k \in 1..(ms[Head(s)].end - ms[Head(s)].start) |-> ms[Head(s)].start + k - 1]
         \o SpanIndices(ms, Tail(s))

\* Two pieces of text joined into one line: a word at the end of the first
\* and a word at the start of the second become one word.
Glue(a, b) ==
    IF a # <<>> /\ b # <<>> /\ IsWord(a[Len(a)]) /\ IsWord(b[1])
    THEN SubSeq(a, 1, Len(a) - 1) \o <<a[Len(a)] \o b[1]>> \o Tail(b)
    ELSE a \o b

\* ''.join(parts) written to a file and read back with readlines() (lines
\* 396, 427-428 and 13-14): a piece that does not end in a newline (nl is
\* FALSE) is one line with the piece after it.
RECURSIVE JoinRead(_)
JoinRead(items) ==
    IF items = <<>> THEN <<>>
    ELSE IF ~items[1].nl /\ Len(items) >= 2
    THEN JoinRead(<<[line |-> Glue(items[1].line, items[2].line), nl |-> items[2].nl]>>
                  \o Tail(Tail(items)))
    ELSE <<items[1].line>> \o JoinRead(Tail(items))

\* lines 373-396, as the lines of the file.  unterminated is the 0-based index
\* of the body line that was read without a newline at its end (the last line
\* of a file), or None.
build_file_content(body, ms, category_methods, header_comment, is_core, header, types_lines, unterminated) ==
    LET Whole(ls) == [k \in 1..Len(ls) |-> [line |-> ls[k], nl |-> TRUE]]
        idx == SpanIndices(ms, category_methods)
        spans == [k \in 1..Len(idx) |->
                     [line |-> body[idx[k] + 1], nl |-> idx[k] # unterminated]]
    IN  IF is_core
        THEN JoinRead(Whole(header \o << <<"@", "MainActor">>, ClassLine >>) \o spans
                      \o Whole(<< <<"}">>, <<>> >> \o types_lines))
        ELSE JoinRead(Whole(SmartExtensionHead(header_comment)) \o spans
                      \o Whole(<< <<"}">> >>))

\* The lines the spans cover: sum(m.end - m.start for m in ms).
RECURSIVE Covered(_, _)
Covered(ms, k) == IF k > Len(ms) THEN 0 ELSE (ms[k].end - ms[k].start) + Covered(ms, k + 1)

\* all_body + one body more, lines 80-95.
RECURSIVE ExtensionBodies(_, _)
ExtensionBodies(dir, k) ==
    IF k > Len(ReadOrder) THEN <<>>
    ELSE extract_extension_lines(dir[FileOf[ReadOrder[k]]]) \o ExtensionBodies(dir, k + 1)

\* The whole script on the directory dir, whose core file ends without a
\* newline when noeol is set: what STEP 2 found, the directory it leaves, and
\* whether the core file it leaves ends without a newline.  Without the class
\* line extract_core_class_body raises and the directory stays as it is.  The
\* last line of the core file is the last line of the supporting types when
\* there are any, and of the class body otherwise (line 56).
smart_split(dir, noeol) ==
    LET core == extract_core_class_body(dir[CoreFile])
        body == core.class_body \o ExtensionBodies(dir, 1)
        ms == find_methods(body)
        cz == sort_categories(ms, assign_categories(ms))
        category_of(f) == CHOOSE cat \in Categories : FileOf[cat] = f
        unterminated == IF noeol /\ core.types = <<>> /\ core.class_body # <<>>
                        THEN Len(core.class_body) - 1 ELSE None
    IN  IF ~core.found
        THEN [raised |-> TRUE, spans |-> 0, covered |-> 0, dir |-> dir, noeol |-> noeol]
        ELSE [raised |-> FALSE, spans |-> Len(ms), covered |-> Covered(ms, 1),
              dir |-> [f \in DOMAIN dir |->
                          IF f \in TempFiles THEN NoFile
                          ELSE build_file_content(body, ms, cz[category_of(f)],
                                                  HeaderComment[category_of(f)],
                                                  f = CoreFile, core.header, core.types,
                                                  unterminated)],
              noeol |-> noeol /\ core.types # <<>>]

(***************************************************************************)
(* smart_split.py: runs of the script, one after the other, on a directory *)
(* that holds a class of at most MaxDirBody member lines                   *)
(***************************************************************************)
MaxDirBody == 3
MaxRuns == 2

DirCatalog == {SBlank, SDoc, SSync, SSaveOpen, SCloseIn, SVar, SInit}

\* A supporting type with a brace in a string literal:
\* struct S { let open = "{" }
SLiteral ==
    <<"struct", " ", "S", " ", "{", " ", "let", " ", "open", " ", "=", " ",
      Q, "{", Q, " ", "}">>

\* The directory before the first run: the core file with the class and, when
\* marker is set, the supporting types after it (with literal, a type that
\* holds a brace in a string literal); the extension files as an earlier split
\* left them.  With noeol the last line of the core file has no newline at
\* its end.
InitialDir(in) ==
    [f \in {FileOf[cat] : cat \in Categories} \cup TempFiles |->
        IF f = CoreFile
        THEN << <<"import", " ", "Foundation">>, <<>> >>
             \o (IF in.attr THEN << <<"@", "MainActor">> >> ELSE <<>>)
             \o <<ClassLine>> \o in.core_body \o << <<"}">> >>
             \o (IF in.marker
                 THEN << <<>>, TypesMark,
                         IF in.literal THEN SLiteral
                         ELSE <<"struct", " ", "S", " ", "{", " ", "}">> >>
                 ELSE <<>>)
        ELSE IF f \in TempFiles THEN (IF in.temp THEN <<>> ELSE NoFile)
        ELSE IF f = FileOf["persistence"]
        THEN SmartExtensionHead(HeaderComment["persistence"]) \o in.pers_body \o << <<"}">> >>
        ELSE LET cat == CHOOSE c \in Categories : FileOf[c] = f
             IN  SmartExtensionHead(HeaderComment[cat]) \o << <<"}">> >>]

DirInit ==
    /\ sin \in [attr : BOOLEAN, marker : BOOLEAN, literal : BOOLEAN, temp : BOOLEAN,
                noeol : BOOLEAN, core_body : {<<>>}, pers_body : {<<>>}]
    /\ sin.literal => sin.marker
    /\ sin.noeol => ~sin.marker
    /\ sdir = InitialDir(sin)
    /\ sruns = <<>>
    /\ V2Idle /\ ScanIdle /\ SmartIdle /\ RwIdle /\ FixIdle /\ GeoIdle /\ StepsIdle

\* One more member line, in the class or in the persistence extension.
DirAddLine ==
    /\ sruns = <<>>
    /\ Len(sin.core_body) + Len(sin.pers_body) < MaxDirBody
    /\ \E l \in DirCatalog :
          \/ sin' = [sin EXCEPT !.core_body = Append(@, l)]
          \/ sin' = [sin EXCEPT !.pers_body = Append(@, l)]
    /\ sdir' = InitialDir(sin')
    /\ UNCHANGED sruns
    /\ UNCHANGED notDir

\* The core file of the directory ends without a newline.
CoreNoEol == IF sruns = <<>> THEN sin.noeol ELSE sruns[Len(sruns)].noeol

\* lines 70-439: one run of the script.
DirRun ==
    /\ Len(sruns) < MaxRuns
    /\ LET run == smart_split(sdir, CoreNoEol)
       IN  sdir' = run.dir /\ sruns' = Append(sruns, run)
    /\ UNCHANGED sin
    /\ UNCHANGED notDir

DirNext == DirAddLine \/ DirRun

SpecSmartFiles == DirInit /\ [][DirNext]_vars

(***************************************************************************)
(* fix_chatservice.py, STEP 1 and STEP 2: 'private' restored from a backup *)
(***************************************************************************)
\* line.rstrip()
RStrip(s) == SubSeq(s, 1, Len(s) - TrailWs(s))

\* stripped.lstrip()
LStrip(s) == SubSeq(s, LeadWs(s) + 1, Len(s))

\* lines 37-41: the key of backup line k in backup_had_private, for a line
\* that normalize changes.
HadPrivate(backup, k) == backup[k] # normalize(backup[k])

\* line 62: stripped in backup_had_private
InBackupHadPrivate(backup, stripped) ==
    \E k \in 1..Len(backup) :
        HadPrivate(backup, k) /\ RStrip(normalize(backup[k])) = stripped

\* backup_had_private[stripped] for a key of the dictionary, looked for from
\* line k down (a later line replaces the entry of an earlier one with the
\* same key).
RECURSIVE backup_had_private(_, _, _)
backup_had_private(backup, stripped, k) ==
    IF HadPrivate(backup, k) /\ RStrip(normalize(backup[k])) = stripped
    THEN RStrip(backup[k])
    ELSE backup_had_private(backup, stripped, k - 1)

\* line 56
backup_norm_set(backup) == {RStrip(normalize(backup[k])) : k \in 1..Len(backup)}

\* line 69: re.match(r'^(    )(func |var |let |enum |struct )', line)
DeclAt4(line) ==
    /\ Len(line) >= 6
    /\ SubSeq(line, 1, 4) = <<" ", " ", " ", " ">>
    /\ line[5] \in {"func", "var", "let", "enum", "struct"}
    /\ line[6] = " "

\* lines 76-85, cut down to two of its members.
public_methods ==
    {<<"func", " ", "startPolling">>, <<"func", " ", "sendHandshake">>}

\* lines 58-98, for one line of the damaged file.
restore_line(backup, line) ==
    LET stripped == RStrip(line)
        is_public == \E pm \in public_methods : MatchesPrefix(LStrip(stripped), pm)
        is_published == Contains(line, <<"@", "Published">>)
    IN  IF InBackupHadPrivate(backup, stripped)
        THEN backup_had_private(backup, stripped, Len(backup))
        ELSE IF DeclAt4(line) /\ stripped \notin backup_norm_set(backup)
                /\ ~is_public /\ ~is_published
                /\ ~StartsWith(stripped, <<" ", " ", " ", " ", "@">>)
        THEN SubSeq(line, 1, 4) \o <<"private", " ">> \o SubSeq(line, 5, Len(line))
        ELSE line

\* lines 52-98
restore(backup, damaged) == [k \in 1..Len(damaged) |-> restore_line(backup, damaged[k])]

(***************************************************************************)
(* fix_chatservice.py: one run on a backup of at most MaxBackup lines and  *)
(* a damaged file made from it                                             *)
(***************************************************************************)
MaxBackup == 3

FPrivVar   == <<" ", " ", " ", " ", "private", " ", "var", " ", "a">>
FVar       == <<" ", " ", " ", " ", "var", " ", "a">>
FPrivFunc  == <<" ", " ", " ", " ", "private", " ", "func", " ", "f", "(", ")", " ", "{">>
FCloseIn   == <<" ", " ", " ", " ", "}">>
FPrivTrail == <<" ", " ", " ", " ", "private", " ", "let", " ", "b", " ">>
FPrivSet   == <<" ", " ", " ", " ", "private", "(", "set", ")", " ", "var", " ", "c">>
FDeep      == <<" ", " ", " ", " ", " ", " ", " ", " ", "private", " ", "var", " ", "a">>
FNewFunc   == <<" ", " ", " ", " ", "func", " ", "g", "(", ")", " ", "{">>
FPublic    == <<" ", " ", " ", " ", "func", " ", "startPolling", "(", ")", " ", "{">>

\* The lines a backup file is made of, and the lines written after the backup
\* was taken.
FixCatalog == {FPrivVar, FVar, FPrivFunc, FCloseIn, FPrivTrail, FPrivSet, FDeep}

FixNewLines == {FNewFunc, FPublic, FVar}

FixInit ==
    /\ fpc = "input" /\ backup_lines = <<>> /\ damaged_lines = <<>> /\ fixed_lines = <<>>
    /\ V2Idle /\ ScanIdle /\ SmartIdle /\ RwIdle /\ DirIdle /\ GeoIdle /\ StepsIdle

\* lines 14-15: one more line of the backup.
FixAddLine ==
    /\ fpc = "input"
    /\ Len(backup_lines) < MaxBackup
    /\ \E l \in FixCatalog : backup_lines' = Append(backup_lines, l)
    /\ UNCHANGED <<fpc, damaged_lines, fixed_lines>>
    /\ UNCHANGED notFix

\* lines 16-17: the damaged file is the backup with 'private ' taken from
\* some of its declaration lines.
FixDamage ==
    /\ fpc = "input"
    /\ \E S \in SUBSET {k \in 1..Len(backup_lines) : HadPrivate(backup_lines, k)} :
          damaged_lines' = [k \in 1..Len(backup_lines) |->
                               IF k \in S THEN normalize(backup_lines[k])
                               ELSE backup_lines[k]]
    /\ fpc' = "damaged"
    /\ UNCHANGED <<backup_lines, fixed_lines>>
    /\ UNCHANGED notFix

\* lines 16-17: the damaged file also holds a line written after the backup.
FixAddNew ==
    /\ fpc = "damaged"
    /\ Len(damaged_lines) = Len(backup_lines)
    /\ \E l \in FixNewLines : damaged_lines' = Append(damaged_lines, l)
    /\ UNCHANGED <<fpc, backup_lines, fixed_lines>>
    /\ UNCHANGED notFix

\* lines 52-98: STEP 2
FixRestore ==
    /\ fpc = "damaged"
    /\ fixed_lines' = restore(backup_lines, damaged_lines)
    /\ fpc' = "done"
    /\ UNCHANGED <<backup_lines, damaged_lines>>
    /\ UNCHANGED notFix

FixNext == FixAddLine \/ FixDamage \/ FixAddNew \/ FixRestore

SpecFix == FixInit /\ [][FixNext]_vars

(***************************************************************************)
(* Scanner harness: every text of at most MaxKeys keystrokes is handed to  *)
(* compute_brace_depths.                                                   *)
(***************************************************************************)
MaxKeys == 5

ScanChars == {"{", "}", Q, BS, "/", "*", "x"}

\* What one keystroke of the harness appends to the last line: a character,
\* a whole string literal, or a triple-quote delimiter.
ScanKeys == {<<c>> : c \in ScanChars} \cup {<<Q, "{", Q>>, <<Q, Q, Q>>}

ScanInit == /\ text = << <<>> >>
            /\ keys = 0
            /\ scanned = <<>>
            /\ V2Idle /\ SmartIdle /\ RwIdle /\ DirIdle /\ FixIdle /\ GeoIdle /\ StepsIdle

TypeKey == /\ scanned = <<>>
           /\ keys < MaxKeys
           /\ \E k \in ScanKeys :
                 text' = [text EXCEPT ![Len(text)] = @ \o k]
           /\ keys' = keys + 1
           /\ UNCHANGED <<scanned, notScan>>

TypeNewline == /\ scanned = <<>>
               /\ keys < MaxKeys
               /\ text' = Append(text, <<>>)
               /\ keys' = keys + 1
               /\ UNCHANGED <<scanned, notScan>>

\* depths = compute_brace_depths(lines)
RunScan == /\ scanned = <<>>
           /\ scanned' = compute_brace_depths(text)
           /\ UNCHANGED <<text, keys, notScan>>

ScanNext == TypeKey \/ TypeNewline \/ RunScan

SpecScan == ScanInit /\ [][ScanNext]_vars

(***************************************************************************)
(* One run of split_chatservice_v2.py on every input of at most MaxLines   *)
(* catalogue lines.                                                        *)
(***************************************************************************)
SpecV2 == V2Init /\ [][V2Next]_vars

(***************************************************************************)
(* compute_brace_depths, iteration by iteration: one step is one pass      *)
(* through the body of the while loop of line 35 ("while"), of the loop    *)
(* over a triple-quoted literal of line 61 ("triple") or of the loop over  *)
(* a string literal of line 72 ("string").  i is 0-based, as in the code.  *)
(***************************************************************************)
\* The loop that runs next when an inner loop m stands at index j of s: the
\* inner loop while j < len(s), the outer loop after it (continue).
InnerOrOuter(s, m, j) == IF j < Len(s) THEN m ELSE "while"

\* One pass through the inner loops without the advance over an ordinary
\* character of a string literal (line 79).
ScanStep_Stuck(s, loop, i, depth, in_block_comment) ==
    LET same == [loop |-> loop, i |-> i, depth |-> depth,
                 in_block_comment |-> in_block_comment, break |-> FALSE]
    IN  IF loop = "triple" THEN
            IF Sub(s, i + 1, 3) = <<Q, Q, Q>>
            THEN [same EXCEPT !.loop = "while", !.i = i + 3]
            ELSE IF s[i + 1] = BS
            THEN [same EXCEPT !.loop = InnerOrOuter(s, "triple", i + 2), !.i = i + 2]
            ELSE [same EXCEPT !.loop = InnerOrOuter(s, "triple", i + 1), !.i = i + 1]
        ELSE IF loop = "string" THEN
            IF s[i + 1] = BS
            THEN [same EXCEPT !.loop = InnerOrOuter(s, "string", i + 2), !.i = i + 2]
            ELSE IF s[i + 1] = Q
            THEN [same EXCEPT !.loop = "while", !.i = i + 1]
            ELSE same
        ELSE IF in_block_comment THEN
            IF Sub(s, i + 1, 2) = <<"*", "/">>
            THEN [same EXCEPT !.i = i + 2, !.in_block_comment = FALSE]
            ELSE [same EXCEPT !.i = i + 1]
        ELSE IF Sub(s, i + 1, 2) = <<"/", "*">>
            THEN [same EXCEPT !.i = i + 2, !.in_block_comment = TRUE]
        ELSE IF Sub(s, i + 1, 2) = <<"/", "/">>
            THEN [same EXCEPT !.break = TRUE]
        ELSE IF s[i + 1] = Q THEN
            IF Sub(s, i + 1, 3) = <<Q, Q, Q>>
            THEN [same EXCEPT !.loop = InnerOrOuter(s, "triple", i + 3), !.i = i + 3]
            ELSE [same EXCEPT !.loop = InnerOrOuter(s, "string", i + 1), !.i = i + 1]
        ELSE [same EXCEPT !.i = i + 1,
                          !.depth = IF s[i + 1] = "{" THEN depth + 1
                                    ELSE IF s[i + 1] = "}" THEN depth - 1 ELSE depth]

\* lines 35-87: one pass through the body of the loop that runs, for i < len(s).
ScanStep(s, loop, i, depth, in_block_comment) ==
    LET same == [loop |-> loop, i |-> i, depth |-> depth,
                 in_block_comment |-> in_block_comment, break |-> FALSE]
    IN  IF loop = "triple" THEN
            \* lines 61-68
            IF Sub(s, i + 1, 3) = <<Q, Q, Q>>
            THEN [same EXCEPT !.loop = "while", !.i = i + 3]
            ELSE IF s[i + 1] = BS
            THEN [same EXCEPT !.loop = InnerOrOuter(s, "triple", i + 2), !.i = i + 2]
            ELSE [same EXCEPT !.loop = InnerOrOuter(s, "triple", i + 1), !.i = i + 1]
        ELSE IF loop = "string" THEN
            \* lines 72-79
            IF s[i + 1] = BS
            THEN [same EXCEPT !.loop = InnerOrOuter(s, "string", i + 2), !.i = i + 2]
            ELSE IF s[i + 1] = Q
            THEN [same EXCEPT !.loop = "while", !.i = i + 1]
            ELSE [same EXCEPT !.loop = InnerOrOuter(s, "string", i + 1), !.i = i + 1]
        ELSE IF in_block_comment THEN
            \* lines 36-42
            IF Sub(s, i + 1, 2) = <<"*", "/">>
            THEN [same EXCEPT !.i = i + 2, !.in_block_comment = FALSE]
            ELSE [same EXCEPT !.i = i + 1]
        ELSE IF Sub(s, i + 1, 2) = <<"/", "*">>
            THEN [same EXCEPT !.i = i + 2, !.in_block_comment = TRUE]
        ELSE IF Sub(s, i + 1, 2) = <<"/", "/">>
            THEN [same EXCEPT !.break = TRUE]
        ELSE IF s[i + 1] = Q THEN
            \* lines 57-60 and 70-71: the opening delimiter
            IF Sub(s, i + 1, 3) = <<Q, Q, Q>>
            THEN [same EXCEPT !.loop = InnerOrOuter(s, "triple", i + 3), !.i = i + 3]
            ELSE [same EXCEPT !.loop = InnerOrOuter(s, "string", i + 1), !.i = i + 1]
        ELSE \* lines 82-87
             [same EXCEPT !.i = i + 1,
                          !.depth = IF s[i + 1] = "{" THEN depth + 1
                                    ELSE IF s[i + 1] = "}" THEN depth - 1 ELSE depth]

MaxStepKeys == 4

ScanLoops == {"while", "triple", "string"}

StepsInit ==
    /\ text = << <<>> >> /\ keys = 0 /\ scanned = <<>>
    /\ scan_pc = "input" /\ scan_line = 0 /\ scan_i = 0 /\ scan_depth = 0
    /\ scan_in_block_comment = FALSE /\ scan_depths = <<>>
    /\ V2Idle /\ SmartIdle /\ RwIdle /\ DirIdle /\ FixIdle /\ GeoIdle

\* The input: one more keystroke on the last line, or a new line.
StepsTypeKey ==
    /\ scan_pc = "input"
    /\ keys < MaxStepKeys
    /\ \E k \in ScanKeys : text' = [text EXCEPT ![Len(text)] = @ \o k]
    /\ keys' = keys + 1
    /\ UNCHANGED stepVars
    /\ UNCHANGED notSteps

StepsTypeNewline ==
    /\ scan_pc = "input"
    /\ keys < MaxStepKeys
    /\ text' = Append(text, <<>>)
    /\ keys' = keys + 1
    /\ UNCHANGED stepVars
    /\ UNCHANGED notSteps

\* lines 28-30: the call.
StepsCall ==
    /\ scan_pc = "input"
    /\ scan_pc' = "for"
    /\ scan_depths' = <<>> /\ scan_depth' = 0 /\ scan_in_block_comment' = FALSE
    /\ UNCHANGED <<scan_line, scan_i, text, keys>>
    /\ UNCHANGED notSteps

\* lines 32-34: the for loop takes the next line.
StepsNextLine ==
    /\ scan_pc = "for"
    /\ scan_line < Len(text)
    /\ scan_line' = scan_line + 1
    /\ scan_i' = 0
    /\ scan_pc' = "while"
    /\ UNCHANGED <<scan_depth, scan_in_block_comment, scan_depths, text, keys>>
    /\ UNCHANGED notSteps

\* lines 35-87: one pass through the body of a while loop.
StepsIterate ==
    /\ scan_pc \in ScanLoops
    /\ scan_i < Len(text[scan_line])
    /\ LET n == ScanStep(text[scan_line], scan_pc, scan_i, scan_depth, scan_in_block_comment)
       IN  /\ scan_pc' = IF n.break THEN "append" ELSE n.loop
           /\ scan_i' = n.i
           /\ scan_depth' = n.depth
           /\ scan_in_block_comment' = n.in_block_comment
    /\ UNCHANGED <<scan_line, scan_depths, text, keys>>
    /\ UNCHANGED notSteps

\* line 89: depths.append(depth), after the while loop ended or was left.
StepsEndLine ==
    /\ \/ scan_pc = "append"
       \/ scan_pc = "while" /\ scan_i >= Len(text[scan_line])
    /\ scan_depths' = Append(scan_depths, scan_depth)
    /\ scan_pc' = "for"
    /\ UNCHANGED <<scan_line, scan_i, scan_depth, scan_in_block_comment, text, keys>>
    /\ UNCHANGED notSteps

\* line 91: return depths
StepsReturn ==
    /\ scan_pc = "for"
    /\ scan_line = Len(text)
    /\ scan_pc' = "returned"
    /\ UNCHANGED <<scan_line, scan_i, scan_depth, scan_in_block_comment, scan_depths, text, keys>>
    /\ UNCHANGED notSteps

StepsNext ==
    \/ StepsTypeKey \/ StepsTypeNewline \/ StepsCall
    \/ StepsNextLine \/ StepsIterate \/ StepsEndLine \/ StepsReturn

SpecScanSteps == StepsInit /\ [][StepsNext]_vars

\* The call is made and every statement that can run does run.
SpecScanStepsFair == StepsInit /\ [][StepsNext]_vars /\ WF_vars(StepsNext)

(***************************************************************************)
(* build_geoip_lite.py: load_asn_ranges and find_asn.  Addresses are the   *)
(* integers 0..MaxIp; the asn of a row is the number of the row.           *)
(***************************************************************************)
MaxIp == 3
MaxRanges == 3

\* line 79: ranges.sort(key=lambda x: x[0]); the sort is stable.
RECURSIVE InsertRange(_, _)
InsertRange(rs, r) ==
    IF rs = <<>> THEN <<r>>
    ELSE IF r.start < Head(rs).start THEN <<r>> \o rs
    ELSE <<Head(rs)>> \o InsertRange(Tail(rs), r)

RECURSIVE SortRanges(_)
SortRanges(rs) ==
    IF rs = <<>> THEN <<>>
    ELSE InsertRange(SortRanges(SubSeq(rs, 1, Len(rs) - 1)), rs[Len(rs)])

\* One pass through the loop with lo = mid in place of lo = mid + 1.
find_asn_step_NoAdvance(rs, ip, l, h) ==
    LET mid == (l + h) \div 2
        r == rs[mid + 1]
    IN  IF ip < r.start THEN [lo |-> l, hi |-> mid - 1, found |-> FALSE, asn |-> None]
        ELSE IF ip > r.end THEN [lo |-> mid, hi |-> h, found |-> FALSE, asn |-> None]
        ELSE [lo |-> l, hi |-> h, found |-> TRUE, asn |-> r.asn]

\* lines 86-93: one pass through the body of the while loop, for lo <= hi.
find_asn_step(rs, ip, l, h) ==
    LET mid == (l + h) \div 2
        r == rs[mid + 1]
    IN  IF ip < r.start THEN [lo |-> l, hi |-> mid - 1, found |-> FALSE, asn |-> None]
        ELSE IF ip > r.end THEN [lo |-> mid + 1, hi |-> h, found |-> FALSE, asn |-> None]
        ELSE [lo |-> l, hi |-> h, found |-> TRUE, asn |-> r.asn]

GeoInit ==
    /\ gpc = "rows" /\ asn_ranges = <<>> /\ ip_int = 0 /\ lo = 0 /\ hi = 0 /\ result = <<>>
    /\ V2Idle /\ ScanIdle /\ SmartIdle /\ RwIdle /\ DirIdle /\ FixIdle /\ StepsIdle

\* lines 70-76: one more row of the file.
GeoAddRow ==
    /\ gpc = "rows"
    /\ Len(asn_ranges) < MaxRanges
    /\ \E s \in 0..MaxIp, e \in 0..MaxIp :
          asn_ranges' = Append(asn_ranges,
                               [start |-> s, end |-> e, asn |-> Len(asn_ranges) + 1])
    /\ UNCHANGED <<gpc, ip_int, lo, hi, result>>
    /\ UNCHANGED notGeo

\* lines 79-80: the rows sorted by start and returned.
GeoSort ==
    /\ gpc = "rows"
    /\ asn_ranges' = SortRanges(asn_ranges)
    /\ gpc' = "loaded"
    /\ UNCHANGED <<ip_int, lo, hi, result>>
    /\ UNCHANGED notGeo

\* lines 83-84: the call for one address.
GeoCall ==
    /\ gpc = "loaded"
    /\ \E ip \in 0..MaxIp : ip_int' = ip
    /\ lo' = 0
    /\ hi' = Len(asn_ranges) - 1
    /\ gpc' = "loop"
    /\ UNCHANGED <<asn_ranges, result>>
    /\ UNCHANGED notGeo

\* lines 85-93: one pass through the loop.
GeoIterate ==
    /\ gpc = "loop"
    /\ lo <= hi
    /\ LET n == find_asn_step(asn_ranges, ip_int, lo, hi)
       IN  /\ lo' = n.lo
           /\ hi' = n.hi
           /\ gpc' = IF n.found THEN "returned" ELSE "loop"
           /\ result' = IF n.found THEN <<n.asn>> ELSE result
    /\ UNCHANGED <<asn_ranges, ip_int>>
    /\ UNCHANGED notGeo

\* line 94: return None
GeoReturnNone ==
    /\ gpc = "loop"
    /\ lo > hi
    /\ result' = <<None>>
    /\ gpc' = "returned"
    /\ UNCHANGED <<asn_ranges, ip_int, lo, hi>>
    /\ UNCHANGED notGeo

GeoNext == GeoAddRow \/ GeoSort \/ GeoCall \/ GeoIterate \/ GeoReturnNone

SpecGeo == GeoInit /\ [][GeoNext]_vars

\* Every statement that can run does run.
SpecGeoFair == GeoInit /\ [][GeoNext]_vars /\ WF_vars(GeoNext)

(***************************************************************************)
(* The depth the scanner is meant to report: braces outside line comments, *)
(* block comments and regular strings, counted character by character.     *)
(***************************************************************************)

\* The index of the quote that closes the string whose content starts at i,
\* or Len(s) + 1 when the string is still open at the end of the line.
RECURSIVE StringEnd(_, _)
StringEnd(s, i) ==
    IF i > Len(s) THEN Len(s) + 1
    ELSE IF s[i] = BS THEN StringEnd(s, i + 2)
    ELSE IF s[i] = Q THEN i
    ELSE StringEnd(s, i + 1)

\* One line, read from index i in mode "code" or "block": the depth at its
\* end, whether a block comment is open there, and the spans <<i, j>> of the
\* string literals that are closed on the line.
RECURSIVE RefLine(_, _, _, _, _)
RefLine(s, i, mode, depth, lits) ==
    IF i > Len(s) THEN [depth |-> depth, open |-> (mode = "block"), lits |-> lits]
    ELSE IF mode = "block" THEN
        IF s[i] = "*" /\ i < Len(s) /\ s[i + 1] = "/"
        THEN RefLine(s, i + 2, "code", depth, lits)
        ELSE RefLine(s, i + 1, "block", depth, lits)
    ELSE IF s[i] = "/" /\ i < Len(s) /\ s[i + 1] = "*"
        THEN RefLine(s, i + 2, "block", depth, lits)
    ELSE IF s[i] = "/" /\ i < Len(s) /\ s[i + 1] = "/"
        THEN [depth |-> depth, open |-> FALSE, lits |-> lits]
    ELSE IF s[i] = Q THEN
        LET j == StringEnd(s, i + 1)
        IN  RefLine(s, j + 1, "code", depth,
                    IF j <= Len(s) THEN lits \cup {<<i, j>>} ELSE lits)
    ELSE RefLine(s, i + 1, "code",
                 depth + (IF s[i] = "{" THEN 1 ELSE IF s[i] = "}" THEN -1 ELSE 0), lits)

\* Per line: the RefLine record of that line.
RECURSIVE RefFrom(_, _, _, _, _)
RefFrom(ls, k, acc, depth, open) ==
    IF k > Len(ls) THEN acc
    ELSE LET e == RefLine(ls[k], 1, IF open THEN "block" ELSE "code", depth, {})
         IN  RefFrom(ls, k + 1, Append(acc, e), e.depth, e.open)

RefTrace(ls) == RefFrom(ls, 1, <<>>, 0, FALSE)
RefDepths(ls) == [k \in 1..Len(ls) |-> RefTrace(ls)[k].depth]

NoTripleQuote(ls) ==
    \A k \in 1..Len(ls) : \A i \in 1..Len(ls[k]) : Sub(ls[k], i, 3) # <<Q, Q, Q>>

\* The text with tokens i..j of line k cut out.
CutOut(ls, k, i, j) ==
    [ls EXCEPT ![k] = SubSeq(@, 1, i - 1) \o SubSeq(@, j + 1, Len(@))]

\* The string literals of line k that hold more "{" than "}".
UnbalancedLits(ls, k) ==
    {sp \in RefTrace(ls)[k].lits :
        LET body == SubSeq(ls[k], sp[1] + 1, sp[2] - 1)
        IN  Count(body, "{") > Count(body, "}")}

\* Cutting tokens i..j out of s would join a "/" with a "/" or "*".
JoinsSlash(s, i, j) ==
    /\ i > 1 /\ s[i - 1] = "/"
    /\ j < Len(s) /\ s[j + 1] \in {"/", "*"}

\* C3 as stated: on a text without triple quotes the reported depths are the
\* counts of "{" minus "}" outside comments and regular strings, and cutting
\* out any string literal that holds an unbalanced "{" leaves the depth trace
\* unchanged.
C3_AsStated ==
    (scanned # <<>> /\ NoTripleQuote(text)) =>
        /\ scanned = RefDepths(text)
        /\ \A k \in 1..Len(text) : \A sp \in UnbalancedLits(text, k) :
              compute_brace_depths(CutOut(text, k, sp[1], sp[2])) = scanned

\* C3, amended: the same, where the cut does not join a "/" before the
\* literal with a "/" or "*" after it.
C3_DepthCountsCodeBraces ==
    (scanned # <<>> /\ NoTripleQuote(text)) =>
        /\ scanned = RefDepths(text)
        /\ \A k \in 1..Len(text) : \A sp \in UnbalancedLits(text, k) :
              ~JoinsSlash(text[k], sp[1], sp[2]) =>
                  compute_brace_depths(CutOut(text, k, sp[1], sp[2])) = scanned

(***************************************************************************)
(* The depth with multi-line string literals honoured: a triple quote      *)
(* opens a literal that lasts, across lines, until the next triple one.  *)
(***************************************************************************)

\* One line, read from index i in mode "code", "block" or "triple": the depth
\* and the mode at its end.
RECURSIVE MlLine(_, _, _, _)
MlLine(s, i, mode, depth) ==
    IF i > Len(s) THEN [depth |-> depth, mode |-> mode]
    ELSE IF mode = "block" THEN
        IF Sub(s, i, 2) = <<"*", "/">>
        THEN MlLine(s, i + 2, "code", depth)
        ELSE MlLine(s, i + 1, "block", depth)
    ELSE IF mode = "triple" THEN
        IF Sub(s, i, 3) = <<Q, Q, Q>> THEN MlLine(s, i + 3, "code", depth)
        ELSE IF s[i] = BS THEN MlLine(s, i + 2, "triple", depth)
        ELSE MlLine(s, i + 1, "triple", depth)
    ELSE IF Sub(s, i, 2) = <<"/", "*">> THEN MlLine(s, i + 2, "block", depth)
    ELSE IF Sub(s, i, 2) = <<"/", "/">> THEN [depth |-> depth, mode |-> "code"]
    ELSE IF Sub(s, i, 3) = <<Q, Q, Q>> THEN MlLine(s, i + 3, "triple", depth)
    ELSE IF s[i] = Q THEN MlLine(s, StringEnd(s, i + 1) + 1, "code", depth)
    ELSE MlLine(s, i + 1, "code",
                depth + (IF s[i] = "{" THEN 1 ELSE IF s[i] = "}" THEN -1 ELSE 0))

RECURSIVE MlFrom(_, _, _, _, _)
MlFrom(ls, k, acc, depth, mode) ==
    IF k > Len(ls) THEN acc
    ELSE LET e == MlLine(ls[k], 1, mode, depth)
         IN  MlFrom(ls, k + 1, Append(acc, e), e.depth, e.mode)

MlTrace(ls) == MlFrom(ls, 1, <<>>, 0, "code")

\* A block comment or a multi-line string literal is open at the end of the input.
OpenAtEnd(ls) ==
    ls # <<>> /\ MlTrace(ls)[Len(ls)].mode \in {"block", "triple"}

\* C4 as stated: when a triple-quoted literal is opened on one line and
\* closed on a later one, the depth reported at the end of every line that
\* ends inside the literal is the depth just before the literal opened.
C4_AsStated ==
    (scanned # <<>> /\ ~OpenAtEnd(text)) =>
        \A k \in 1..Len(text) :
            MlTrace(text)[k].mode = "triple" => scanned[k] = MlTrace(text)[k].depth

\* C3: the scan has run on a text whose string literal holds an escaped
\* quote and an unbalanced "{".
C3_Witness ==
    /\ scanned # <<>>
    /\ NoTripleQuote(text)
    /\ \E k \in 1..Len(text) : \E sp \in UnbalancedLits(text, k) :
          /\ ~JoinsSlash(text[k], sp[1], sp[2])
          /\ \E i \in sp[1]..sp[2] : text[k][i] = BS

(***************************************************************************)
(* Claims about a run of split_chatservice_v2.py                           *)
(***************************************************************************)

\* Every unit the run emits (the file lines built from each section) ends at
\* nesting depth zero.
AllUnitsBalanced ==
    \A idx \in 1..Min(Len(sections), NumFiles) : FinalDepth(OutLines(sections, idx)) = 0

\* C1 as stated (all-or-nothing commit): a file is written only when every
\* emitted unit has passed the balance check; with an unbalanced unit the
\* run writes and modifies nothing.
C1_AsStated ==
    written_files # <<>> => (pc \in {"exit0", "exit1"} /\ AllUnitsBalanced)

\* C5 as stated: when a block comment or a multi-line string literal is open
\* at the end of the input, the run fails: it writes no file and does not
\* end successfully.
C5_AsStated ==
    (OpenAtEnd(lines) /\ pc # "input") => (written_files = <<>> /\ pc # "exit0")

\* C6 as stated: a run whose scan of the whole input ends at a nonzero depth
\* never completes successfully.
C6_AsStated ==
    pc = "exit0" => depths[Len(depths)] = 0


\* The extension files written so far.
WrittenExtensions == {written_files[k] : k \in 1..Len(written_files)} \ {1}

\* A member declaration line with the plain qualifier: after the indentation
\* comes "private", a blank and a word.
PlainPrivateMember(line) ==
    LET s == Strip(line)
    IN  Len(s) >= 3 /\ s[1] = "private" /\ s[2] = " " /\ IsWord(s[3])

\* C11 as stated: no extension file holds a member declaration line that still
\* starts with plain "private".
C11_AsStated ==
    \A f \in WrittenExtensions : \A i \in 1..Len(fs[f]) : ~PlainPrivateMember(fs[f][i])

\* C12 as stated: when some target has no cut line in its window the run stops
\* before the sections are made, so sections exist only with one cut point
\* per target.
C12_AsStated ==
    sections # <<>> => Len(cut_points) = NumTargets

\* C13 as stated: when the depth trace of the input ends at zero and every
\* target has its cut point at depth 1, every emitted unit ends at depth zero.
C13_AsStated ==
    ( /\ pc \in {"step6", "step7", "exit0", "exit1"}
      /\ depths[Len(depths)] = 0
      /\ Len(cut_points) = NumTargets
      /\ \A k \in 1..Len(cut_points) : depths[cut_points[k] + 1] = 1 )
    => AllUnitsBalanced

\* C16 as stated: when a write fails, no output file has been created or
\* overwritten: the directory is as it was before the run.
C16_AsStated ==
    pc = "ioerror" => fs = InitialFs(lines)

\* The number of input lines before section idx.
RECURSIVE SectionOffset(_, _)
SectionOffset(secs, idx) ==
    IF idx <= 1 THEN 0 ELSE Len(secs[idx - 1]) + SectionOffset(secs, idx - 1)

\* Input line k starts inside a block comment or a multi-line string literal.
StartsInsideLiteral(ls, k) == k > 1 /\ MlTrace(ls)[k - 1].mode \in {"block", "triple"}

\* Where line j of section idx stands in the file written for it.
EmittedIndex(idx, j) == IF idx = 1 THEN j ELSE Len(ExtensionHead) + j

\* C19 as stated: a line that lies inside a block comment or a multi-line
\* string literal and begins with "private" and a declaration keyword is
\* emitted as it is.
C19_AsStated ==
    \A n \in 1..Len(written_files) :
        LET idx == written_files[n]
        IN  \A j \in 1..Len(sections[idx]) :
                LET k == SectionOffset(sections, idx) + j
                IN  (StartsInsideLiteral(lines, k) /\ PlainPrivateMember(lines[k]))
                        => fs[idx][EmittedIndex(idx, j)] = lines[k]

(***************************************************************************)
(* split_chatservice_v2.py, STEP 2: the choice of the cut points           *)
(***************************************************************************)
\* The 0-based indices find_nearest_cut looks at for a target (line 117).
CutWindow(target, ls) ==
    {i \in 0..(Len(ls) - 1) : Max(0, target - SearchWindow) <= i /\ i < target + SearchWindow}

\* A line of depth 1 that is blank or comment-only.
CleanCut(i, ds, ls) == ds[i + 1] = 1 /\ is_clean(ls[i + 1])

\* STEP 2 has run.
CutsChosen == pc \in {"step3", "step4", "step6", "step7", "exit0", "exit1", "ioerror"}

\* C21 as stated: when the window of a target holds a blank or comment-only
\* line of depth 1, the cut point chosen for the target is such a line, and it
\* is the nearest of them to the target.
C21_AsStated ==
    CutsChosen =>
        \A k \in 1..NumTargets :
            LET target == target_cuts[k]
                cut == find_nearest_cut(target, depths, lines)
                clean == {i \in CutWindow(target, lines) : CleanCut(i, depths, lines)}
            IN  clean # {} =>
                    /\ \E n \in 1..Len(cut_points) : cut_points[n] = cut
                    /\ cut \in clean
                    /\ \A i \in clean : Abs(cut - target) <= Abs(i - target)

\* The sections joined in their order.
RECURSIVE JoinSections(_, _)
JoinSections(secs, k) ==
    IF k > Len(secs) THEN <<>> ELSE secs[k] \o JoinSections(secs, k + 1)

\* Consecutive targets lie at least two search windows apart (60 lines in
\* the script).
TargetsApart ==
    \A k \in 1..(NumTargets - 1) : target_cuts[k + 1] - target_cuts[k] >= 2 * SearchWindow

\* C25: with targets at least two windows apart the cut points that are found
\* are strictly increasing, and the sections joined in order are the input:
\* no line is dropped, none is in two sections.
C25_SectionsPartition ==
    (TargetsApart /\ pc \in {"step4", "step6", "step7", "exit0", "exit1", "ioerror"}) =>
        /\ \A k \in 1..(Len(cut_points) - 1) : cut_points[k] < cut_points[k + 1]
        /\ Len(sections) = Len(cut_points) + 1
        /\ JoinSections(sections, 1) = lines

\* C25 witness: every target found its cut point, the two cuts lie in
\* neighbouring windows next to each other, and no section is empty.
C25_Witness ==
    /\ pc = "step4"
    /\ Len(cut_points) = NumTargets
    /\ cut_points[2] = cut_points[1] + 1
    /\ \A k \in 1..Len(sections) : sections[k] # <<>>

\* The targets whose window holds a line of depth 1.
TargetsWithCut ==
    {k \in 1..NumTargets : \E i \in CutWindow(target_cuts[k], lines) : depths[i + 1] = 1}

\* C26: the index find_nearest_cut returns for a target is a line of depth 1
\* inside the window of the target, and it returns None exactly when the
\* window holds no line of depth 1; so there are as many cut points as
\* targets with such a line, and STEP 4 finds every cut point at depth 1.
C26_CutInWindowAtDepthOne ==
    CutsChosen =>
        /\ \A k \in 1..NumTargets :
              LET cut == find_nearest_cut(target_cuts[k], depths, lines)
              IN  /\ cut # None =>
                        /\ cut \in CutWindow(target_cuts[k], lines)
                        /\ depths[cut + 1] = 1
                  /\ cut = None <=> k \notin TargetsWithCut
        /\ Len(cut_points) = Cardinality(TargetsWithCut)
        /\ \A n \in 1..Len(cut_points) : depths[cut_points[n] + 1] = 1

\* C26 witness: the first target has a cut point, the second has none
\* although its window lies inside the input.
C26_Witness ==
    /\ pc = "step4"
    /\ Len(lines) > target_cuts[NumTargets]
    /\ TargetsWithCut = {1}
    /\ Len(cut_points) = 1

(***************************************************************************)
(* Claims about smart_split.py (SpecSmart)                                 *)
(***************************************************************************)

\* The spans ms cut body into consecutive pieces from line 0 to len(body).
SpansPartition(body, ms) ==
    /\ ms # <<>>
    /\ ms[1].start = 0
    /\ \A i \in 1..(Len(ms) - 1) : ms[i].end = ms[i + 1].start
    /\ ms[Len(ms)].end = Len(body)

\* C2: the spans of boundary detection form an exact partition of the body:
\* the first starts at line 0, each ends where the next starts, the last ends
\* at len(body).
C2_AsStated ==
    (spc # "input" /\ all_body # <<>>) => SpansPartition(all_body, methods)

\* A first line that declares a stored property or an initializer.
StoredOrInit(fl) ==
    \E p \in {<<"var", " ">>, <<"let", " ">>, <<"init", "(">>} : StartsWith(fl, p)

InCategory(k, cat) == InSeq(k, categorized[cat])

\* C7: every stored property and every initializer is in core, and in no
\* other category.
C7_AsStated ==
    spc = "done" =>
        \A k \in 1..Len(methods) :
            StoredOrInit(methods[k].first_line) =>
                /\ InCategory(k, "core")
                /\ \A cat \in Categories \ {"core"} : ~InCategory(k, cat)

\* How often span k is listed, over all the categories.
Occurrences(cz, k) ==
    Count(cz["core"], k) + Count(cz["sync"], k) + Count(cz["utxo"], k)
    + Count(cz["sending"], k) + Count(cz["processing"], k) + Count(cz["persistence"], k)

Ascending(ms, s) == \A i \in 1..(Len(s) - 1) : ms[s[i]].start < ms[s[i + 1]].start

\* C8: after either pass every detected span is listed in exactly one of the
\* six categories and nothing else is listed; after the sort every category is
\* in source order and the assignment is the function of the span list that
\* the two passes and the sort compute.
C8_ExactlyOnePartition ==
    /\ spc \in {"pass2", "sort", "done"} =>
          /\ \A k \in 1..Len(methods) : Occurrences(categorized, k) = 1
          /\ \A cat \in Categories : \A i \in 1..Len(categorized[cat]) :
                categorized[cat][i] \in 1..Len(methods)
    /\ spc = "done" =>
          /\ \A cat \in Categories : Ascending(methods, categorized[cat])
          /\ categorized = sort_categories(methods, assign_categories(methods))

\* C8 witness: a property with a name of the sending rules, first put in
\* sending and then moved to core, stands before a CORE_KEEP method, and sync
\* is not empty.
C8_Witness ==
    /\ spc = "done"
    /\ categorized["sync"] # <<>>
    /\ \E k, j \in 1..Len(methods) :
          /\ k < j
          /\ is_property(methods[k].first_line)
          /\ NameIn(methods[k].name, SENDING_METHODS)
          /\ NameIn(methods[j].name, CORE_KEEP)
          /\ InCategory(k, "core") /\ InCategory(j, "core")

\* The rule table in its order.
RuleTable ==
    << [id |-> "sync", names |-> SYNC_METHODS],
       [id |-> "utxo", names |-> UTXO_METHODS],
       [id |-> "sending", names |-> SENDING_METHODS],
       [id |-> "processing", names |-> PROCESSING_METHODS] >>

RECURSIVE FirstMatch(_, _)
FirstMatch(name, i) ==
    IF i > Len(RuleTable) THEN "persistence"
    ELSE IF NameIn(name, RuleTable[i].names) THEN RuleTable[i].id
    ELSE FirstMatch(name, i + 1)

AfterIndentAndAttribute(line) ==
    LET s == SubSeq(line, LeadWs(line) + 1, Len(line))
    IN  SubSeq(s, AfterAttribute(s), Len(s))

\* The qualifier of the declaration is private(set).
QualifierIsPrivateSet(line) ==
    StartsWith(AfterIndentAndAttribute(line), <<"private", "(", "set", ")">>)

\* C10: a declaration line whose qualifier is private(set), with or without
\* an attribute before it, comes out of every rewriting function unchanged.
C10_PrivateSetUnchanged ==
    (rw_out # <<>> /\ QualifierIsPrivateSet(rw_line)) =>
        \A f \in RewriteFunctions : rw_out[f] = rw_line

\* C10 witness: the functions have run on an indented @Published private(set)
\* var line.
C10_Witness ==
    /\ rw_out # <<>>
    /\ QualifierIsPrivateSet(rw_line)
    /\ StartsWith(rw_line, Indent4 \o <<"@", "Published", " ", "private", "(">>)
    /\ Contains(rw_line, <<" ", "var", " ">>)

DocOrMark(stripped) ==
    StartsWith(stripped, <<"/", "/", "/">>) \/ StartsWith(stripped, <<"/", "/", " ", "MARK">>)

\* C18 as stated: documentation and marker lines right before a declaration
\* are in the span of that declaration, so no span starts at a declaration
\* line that comes right after such a line.
C18_AsStated ==
    spc = "done" =>
        \A k \in 1..Len(methods) :
            ~( /\ methods[k].start >= 1
               /\ ~DocOrMark(methods[k].first_line)
               /\ DocOrMark(Strip(all_body[methods[k].start])) )

(***************************************************************************)
(* More claims about the visibility rewriting functions (SpecRewrite)      *)
(***************************************************************************)

\* C20: each rewriting function returns its own result unchanged:
\* f(f(x)) = f(x).
C20_RewriteIdempotent ==
    rw_again # <<>> => \A f \in RewriteFunctions : rw_again[f] = rw_out[f]

\* C20 witness: the functions have run twice on a line that the two of
\* split_chatservice_v2.py and fix_private_access all changed the first time.
C20_Witness ==
    /\ rw_again # <<>>
    /\ rw_out["strip_private_from_declarations"] # rw_line
    /\ rw_out["strip_private_properties"] # rw_line
    /\ rw_out["fix_private_access"] # rw_line


\* The lines of the spans of one category, taken in the order of the body.
RECURSIVE OriginalOrderLines(_, _)
OriginalOrderLines(k, cat) ==
    IF k > Len(methods) THEN <<>>
    ELSE (IF InCategory(k, cat)
          THEN PySlice(all_body, methods[k].start, methods[k].end) ELSE <<>>)
         \o OriginalOrderLines(k + 1, cat)

\* C22: in every category the spans stand by ascending start line, and the
\* unit written for the category holds their lines in the order of the body,
\* whatever the order in which the two passes inserted them.
C22_OriginalOrder ==
    spc = "done" =>
        \A cat \in Categories :
            /\ \A i, j \in 1..Len(categorized[cat]) :
                  i < j => methods[categorized[cat][i]].start < methods[categorized[cat][j]].start
            /\ build_file_content(all_body, methods, categorized[cat], HeaderComment[cat],
                                  cat = "core", <<>>, <<>>, None)
               = IF cat = "core"
                 THEN << <<"@", "MainActor">>, ClassLine >> \o OriginalOrderLines(1, cat)
                      \o << <<"}">>, <<>> >>
                 ELSE SmartExtensionHead(HeaderComment[cat]) \o OriginalOrderLines(1, cat)
                      \o << <<"}">> >>

\* C22 witness: the passes left core in another order than the body's (a
\* property moved to core by the second pass stands behind a later span), and
\* the sort has run.
C22_Witness ==
    /\ spc = "done"
    /\ categorized["core"] # assign_categories(methods)["core"]
    /\ Len(categorized["core"]) >= 2

\* The depth just before 0-based line i of the body, braces in comments and
\* string literals not counted.
LexicalDepthBefore(body, i) == IF i = 0 THEN 0 ELSE RefDepths(body)[i]

\* C23 as stated: every span starts at a line before which the depth, counted
\* without the braces in comments and string literals, is the top level of
\* the class body.
C23_AsStated ==
    spc # "input" =>
        \A k \in 1..Len(methods) : LexicalDepthBefore(all_body, methods[k].start) = 0
(***************************************************************************)
(* Claims about repeated runs of smart_split.py (SpecSmartFiles)           *)
(***************************************************************************)

\* C14 as stated: a second run leaves every file as the first run wrote it.
C14_AsStated ==
    Len(sruns) >= 2 => sruns[2].dir = sruns[1].dir

\* C15 as stated: boundary detection on the body put together again from the
\* files of a run finds as many spans, covering as many lines, as the
\* detection of that run did.
C15_AsStated ==
    Len(sruns) >= 2 =>
        /\ sruns[2].spans = sruns[1].spans
        /\ sruns[2].covered = sruns[1].covered


\* The character count of the script over lines a+1..b of ls: the number of
\* "{" less the number of "}".
RECURSIVE RawCount(_, _, _)
RawCount(ls, a, b) ==
    IF a >= b THEN 0 ELSE BraceDelta(ls[a + 1]) + RawCount(ls, a + 1, b)

\* The directory run n started from, and the body it reassembled.
DirBefore(n) == IF n = 1 THEN InitialDir(sin) ELSE sruns[n - 1].dir

BodyOf(dir) == extract_core_class_body(dir[CoreFile]).class_body \o ExtensionBodies(dir, 1)

\* lines 413-422: the files the run wrote, and the check on one of them.
WrittenBy(n) == {f \in DOMAIN sruns[n].dir : f \notin TempFiles}

PassesBalanceCheck(content) == RawCount(content, 0, Len(content)) = 0

\* The spans of run n start at running count 0 and all but the last have net
\* count 0.
SpansAtCountZero(n) ==
    LET body == BodyOf(DirBefore(n))
        ms == find_methods(body)
    IN  /\ Len(ms) = sruns[n].spans
        /\ \A k \in 1..Len(ms) : RawCount(body, 0, ms[k].start) = 0
        /\ \A k \in 1..(Len(ms) - 1) : RawCount(body, ms[k].start, ms[k].end) = 0

BodyCountZero(n) == LET body == BodyOf(DirBefore(n)) IN RawCount(body, 0, Len(body)) = 0

\* The lines of the core file outside the class body have net count 0.
HeaderAndTypesCountZero(n) ==
    LET core == extract_core_class_body(DirBefore(n)[CoreFile])
    IN  RawCount(core.header, 0, Len(core.header)) + RawCount(core.types, 0, Len(core.types)) = 0

\* C24 as stated: every span starts at running count 0, every span but the
\* last has net count 0, and when the body has net count 0 every file that is
\* written passes the balance check.
C24_AsStated ==
    \A n \in 1..Len(sruns) :
        ~sruns[n].raised =>
            /\ SpansAtCountZero(n)
            /\ BodyCountZero(n) => \A f \in WrittenBy(n) : PassesBalanceCheck(sruns[n].dir[f])

\* C24, amended: the same for the spans; when the body has net count 0 every
\* extension file passes the balance check, and the core file passes it
\* exactly when the header and the supporting types have net count 0 too.
C24_UnitsBalanced ==
    \A n \in 1..Len(sruns) :
        ~sruns[n].raised =>
            /\ SpansAtCountZero(n)
            /\ BodyCountZero(n) =>
                  /\ \A f \in WrittenBy(n) \ {CoreFile} : PassesBalanceCheck(sruns[n].dir[f])
                  /\ PassesBalanceCheck(sruns[n].dir[CoreFile]) <=> HeaderAndTypesCountZero(n)

\* C24 witness: a run on a core file with supporting types, whose body of
\* net count 0 holds a function of several lines: two spans were found and
\* every file passes the check.
C24_Witness ==
    /\ Len(sruns) >= 1
    /\ sin.marker /\ ~sin.literal
    /\ ~sruns[1].raised
    /\ BodyCountZero(1)
    /\ sruns[1].spans >= 2
    /\ \E i \in 1..Len(sin.core_body) : sin.core_body[i] = SSaveOpen
    /\ \A f \in WrittenBy(1) : PassesBalanceCheck(sruns[1].dir[f])

\* The spans run n found and the categories it gave them.
SpansOf(n) == find_methods(BodyOf(DirBefore(n)))

CategoriesOf(n) == sort_categories(SpansOf(n), assign_categories(SpansOf(n)))

\* C27 as stated: read back from the extension file a run wrote for a
\* category, the extension body is the lines of the spans of the category in
\* their order, with nothing of the wrapper and nothing missing.
C27_AsStated ==
    \A n \in 1..Len(sruns) :
        ~sruns[n].raised =>
            \A cat \in Categories \ {"core"} :
                LET spans == SpanLines(BodyOf(DirBefore(n)), SpansOf(n), CategoriesOf(n)[cat])
                    unit == sruns[n].dir[FileOf[cat]]
                IN  /\ extract_extension_lines(unit) = spans
                    /\ extract_extension_body(unit) = spans

(***************************************************************************)
(* Claims about fix_chatservice.py (SpecFix)                               *)
(***************************************************************************)
\* The damaged file is the backup with 'private ' removed from some of its
\* 4-space-indented declaration lines, and nothing else changed.
DamagedFromBackup ==
    /\ Len(damaged_lines) = Len(backup_lines)
    /\ \A k \in 1..Len(backup_lines) :
          damaged_lines[k] \in {backup_lines[k], normalize(backup_lines[k])}

\* C28 as stated: for such a damaged file the restored lines are the lines of
\* the backup.
C28_AsStated ==
    (fpc = "done" /\ DamagedFromBackup) => fixed_lines = backup_lines

(***************************************************************************)
(* Claims about the loops of compute_brace_depths (SpecScanStepsFair)      *)
(***************************************************************************)
\* A pass through the body of a while loop that stays on the line and in the
\* loops moves i forward; a step of the for loop moves to the next line.
IndexAdvances ==
    /\ (scan_pc \in ScanLoops /\ scan_pc' \in ScanLoops) =>
            (scan_line' = scan_line /\ scan_i' > scan_i)
    /\ (scan_pc = "for" /\ scan_pc' = "while") => scan_line' = scan_line + 1

\* C29: in every loop and every scanner state an iteration moves the scan
\* index forward, the call returns, and it returns one depth per line.
C29_Terminates ==
    /\ [][IndexAdvances]_vars
    /\ <>(scan_pc = "returned" /\ Len(scan_depths) = Len(text))

\* C29 witness: the call has returned on a text of several lines, one of
\* which ends in a backslash inside a string literal, where i is moved past
\* the end of the line.
C29_Witness ==
    /\ scan_pc = "returned"
    /\ Len(text) >= 2
    /\ Len(scan_depths) = Len(text)
    /\ \E k \in 1..Len(text) : text[k] = <<Q, BS>>

(***************************************************************************)
(* Claims about find_asn (SpecGeoFair)                                     *)
(***************************************************************************)
\* The ranges are sorted by start, have start <= end and are pairwise
\* disjoint.
RangesWellFormed ==
    /\ \A k \in 1..Len(asn_ranges) : asn_ranges[k].start <= asn_ranges[k].end
    /\ \A k \in 1..(Len(asn_ranges) - 1) : asn_ranges[k].end < asn_ranges[k + 1].start

\* The asn of the first range from k on that holds ip, or None.
RECURSIVE LinearSearch(_, _, _)
LinearSearch(rs, ip, k) ==
    IF k > Len(rs) THEN None
    ELSE IF rs[k].start <= ip /\ ip <= rs[k].end THEN rs[k].asn
    ELSE LinearSearch(rs, ip, k + 1)

\* An iteration that does not return makes the interval lo..hi smaller.
IntervalShrinks ==
    (gpc = "loop" /\ gpc' = "loop") => (hi' - lo' < hi - lo)

\* For well-formed ranges the call returned what a linear search returns: the
\* asn of the one range that holds the address, or None when there is none.
AgreesWithLinearSearch ==
    (gpc = "returned" /\ RangesWellFormed) =>
        /\ result = <<LinearSearch(asn_ranges, ip_int, 1)>>
        /\ \A k \in 1..Len(asn_ranges) :
              (asn_ranges[k].start <= ip_int /\ ip_int <= asn_ranges[k].end)
                  => result = <<asn_ranges[k].asn>>
        /\ result = <<None>> <=>
              ~\E k \in 1..Len(asn_ranges) :
                    asn_ranges[k].start <= ip_int /\ ip_int <= asn_ranges[k].end

\* C30: find_asn makes its interval smaller in every iteration and returns;
\* for ranges sorted by start, with start <= end and pairwise disjoint, it
\* returns the asn of the one range that holds the address, None when no
\* range holds it, as a linear search does.
C30_BinarySearch ==
    /\ [][IntervalShrinks]_vars
    /\ []AgreesWithLinearSearch
    /\ <>(gpc = "returned")

\* C30 witness: three well-formed ranges with a gap, and the call found the
\* address in the last of them after it had moved lo.
C30_Witness ==
    /\ gpc = "returned"
    /\ RangesWellFormed
    /\ Len(asn_ranges) = MaxRanges
    /\ asn_ranges[2].end + 1 < asn_ranges[3].start
    /\ lo > 0
    /\ result = <<asn_ranges[3].asn>>
====
